---- MODULE Spec2Model ----
(***************************************************************************)
(* Verification model of the recommendation / keyword micro-service        *)
(* (Backend/src/ai.py, class LLM) and of its callers (Backend/src/app.py,  *)
(* Backend/src/database.py).                                               *)
(*                                                                         *)
(* Python strings are modelled as sequences of naturals: a text is the     *)
(* sequence of its sentences, each sentence being one "word" number.       *)
(*   1..MaxSents  sentences in the language the caller wrote them in       *)
(*   11..19       the same sentences translated to English ('en')          *)
(*   21..29       the same sentences translated to French  ('fr')          *)
(*   101, 102     e-mail addresses, 201/202 the language codes 'en'/'fr'   *)
(***************************************************************************)
EXTENDS Integers, Sequences, FiniteSets, TLC

---------------------------------------------------------------------------
(* Bounds of the model *)

MaxReq == 2

MaxSents == 2

MaxScript == 4

MaxNeighbors == 6

MaxLines == 3

MaxKwSents == 6

MaxProfiles == 2

(* Program constants *)

DefaultMaxAttempts == 4

DefaultRetryDelay == 1

TranslationCap == 5000

ChunkLimit == 3000

---------------------------------------------------------------------------
(* Values *)

Callers == {"c1", "c2"}

E1 == <<101>>

E2 == <<102>>

Emails == {E1, E2}

En == <<201>>

Fr == <<202>>

T1 == <<1>>

Texts == {T1, [i \in 1..MaxSents |-> i]}

NoExc == ""

TranslateError == "translation backend failed"

TypeError == "TypeError: wrong number of positional arguments"

AttributeError == "AttributeError: object has no attribute 'get'"

ZmqError == "Socket operation on non-socket"

LlmInitError(step) == <<"LLM.init", step>>

NoneTypeError == "AttributeError: 'NoneType' object has no attribute 'close'"

KeywordsTerminalError == "Error occurred when parsing LLM output for keywords."

ProfilesTerminalError == "Error occurred when parsing LLM output for generic profiles."

---------------------------------------------------------------------------
(* Translation backend and sentence segmentation *)

Tr(w, lang) == (w % 10) + (IF lang = En THEN 10 ELSE 20)

GoogleTranslate(text, lang) == [i \in 1..Len(text) |-> Tr(text[i], lang)]

TranslateText(text, lang) == GoogleTranslate(text, lang)

Sents(text) == [i \in 1..Len(text) |-> <<text[i]>>]

---------------------------------------------------------------------------
(* The similarity index: a chromadb collection, as the sequence of its     *)
(* entries in insertion order.                                             *)

CollectionGet(st, email) ==
    LET owned == SelectSeq(st, LAMBDA r : r.expert_email = email)
    IN  [i \in 1..Len(owned) |-> owned[i].document]

CollectionDeleteFirst(st, email) ==
    LET owned == {i \in 1..Len(st) : st[i].expert_email = email}
    IN  IF owned = {} THEN st
        ELSE LET m == CHOOSE i \in owned : \A j \in owned : i <= j
             IN  SubSeq(st, 1, m - 1) \o SubSeq(st, m + 1, Len(st))

CollectionDeleteAll(st, email) == <<>>

CollectionDelete(st, email) == SelectSeq(st, LAMBDA r : r.expert_email # email)

CollectionAddWithoutOwner(st, doc, email, id) ==
    Append(st, [document |-> doc, expert_email |-> <<>>, id |-> id])

CollectionAdd(st, doc, email, id) ==
    Append(st, [document |-> doc, expert_email |-> email, id |-> id])

RECURSIVE AddSkills(_, _, _, _)
AddSkills(st, clk, skills, email) ==
    IF skills = <<>> THEN [store |-> st, clock |-> clk]
    ELSE AddSkills(CollectionAdd(st, Head(skills), email, clk), clk + 1, Tail(skills), email)

NeedsInsertAlways(stored, tokenized) == TRUE

NeedsInsert(stored, tokenized) == stored = <<>> \/ stored # tokenized

RECURSIVE PopulateOrUpdate(_, _, _, _, _)
PopulateOrUpdate(st, clk, expert_skills, expert_emails, failAt) ==
    IF expert_emails = <<>> THEN [store |-> st, clock |-> clk, raised |-> NoExc]
    ELSE IF failAt = 1 THEN [store |-> st, clock |-> clk, raised |-> TranslateError]
    ELSE LET tokenized == Sents(TranslateText(Head(expert_skills), En))
             stored    == CollectionGet(st, Head(expert_emails))
             r == IF NeedsInsert(stored, tokenized)
                  THEN AddSkills(st, clk, tokenized, Head(expert_emails))
                  ELSE [store |-> st, clock |-> clk]
         IN  PopulateOrUpdate(r.store, r.clock, Tail(expert_skills), Tail(expert_emails),
                              IF failAt = 0 THEN 0 ELSE failAt - 1)

DeleteNothing(st, expert_email) == st

DeleteExpertFromVectorStore(st, expert_email) == CollectionDelete(st, expert_email)

---------------------------------------------------------------------------
(* The retrying query clients.  A script gives, attempt by attempt, what   *)
(* the generative backend would do: "ok" (output parses), "parse" (output  *)
(* fails parsing), "transport" (the backend call itself raises).           *)

Outcomes == {"ok", "parse", "transport"}

Clients == {"profiles", "keywords"}

ParserException(client) ==
    IF client = "profiles" THEN "OutputParserException" ELSE "AttributeError"

RaisedBy(client, outcome) ==
    IF outcome = "parse" THEN ParserException(client) ELSE "ConnectionError"

CaughtEveryException(client) == {"OutputParserException", "AttributeError", "ConnectionError"}

CaughtExceptions(client) ==
    IF client = "profiles" THEN {"OutputParserException"} ELSE {"AttributeError"}

AttemptRange(max_attempts) == 1..(max_attempts - 1)

TerminalError(client) ==
    IF client = "profiles" THEN ProfilesTerminalError ELSE KeywordsTerminalError

RECURSIVE TryGetLlmFrom(_, _, _, _)
TryGetLlmFrom(client, script, max_attempts, attempt) ==
    IF attempt \notin AttemptRange(max_attempts)
    THEN [status |-> "terminal", exc |-> TerminalError(client),
          calls |-> attempt - 1, sleeps |-> attempt - 1, delay |-> (attempt - 1) * DefaultRetryDelay]
    ELSE IF script[attempt] = "ok"
    THEN [status |-> "ok", exc |-> NoExc,
          calls |-> attempt, sleeps |-> attempt - 1, delay |-> (attempt - 1) * DefaultRetryDelay]
    ELSE IF RaisedBy(client, script[attempt]) \in CaughtExceptions(client)
    THEN TryGetLlmFrom(client, script, max_attempts, attempt + 1)
    ELSE [status |-> "raised", exc |-> RaisedBy(client, script[attempt]),
          calls |-> attempt, sleeps |-> attempt - 1, delay |-> (attempt - 1) * DefaultRetryDelay]

TryGetLlm(client, script) == TryGetLlmFrom(client, script, DefaultMaxAttempts, 1)

Scripts == [1..MaxScript -> Outcomes]

---------------------------------------------------------------------------
(* Keyword extraction and expert recommendation, as far as the dispatch    *)
(* loop observes them.                                                     *)

Upper(w) == IF w > 30 THEN w ELSE w + 30

RECURSIVE Dedupe(_)
Dedupe(s) ==
    IF s = <<>> THEN <<>>
    ELSE LET rest == Dedupe(Tail(s))
         IN  IF \E i \in 1..Len(rest) : rest[i] = Head(s) THEN rest ELSE <<Head(s)>> \o rest

KeywordTags(translated_text) ==
    Dedupe([i \in 1..Len(translated_text) |-> <<Upper(translated_text[i])>>])

MaxExperts == 5

MaxDistance == 50

NResults == 20

RECURSIVE ScanNeighborsAnyDistance(_, _, _)
ScanNeighborsAnyDistance(neighbors, emails, scores) ==
    IF neighbors = <<>> THEN [expert_emails |-> emails, scores |-> scores]
    ELSE LET n == Head(neighbors)
             keep == \A i \in 1..Len(emails) : emails[i] # n.expert_email
             emails2 == IF keep THEN Append(emails, n.expert_email) ELSE emails
             scores2 == IF keep THEN Append(scores, n.distance) ELSE scores
         IN  IF Len(emails2) = MaxExperts
             THEN [expert_emails |-> emails2, scores |-> scores2]
             ELSE ScanNeighborsAnyDistance(Tail(neighbors), emails2, scores2)

RECURSIVE ScanNeighborsLastWins(_, _, _)
ScanNeighborsLastWins(neighbors, emails, scores) ==
    IF neighbors = <<>> THEN [expert_emails |-> emails, scores |-> scores]
    ELSE LET n == Head(neighbors)
             known == \E i \in 1..Len(emails) : emails[i] = n.expert_email
             near == n.distance <= MaxDistance
             emails2 == IF ~known /\ near THEN Append(emails, n.expert_email) ELSE emails
             scores2 == IF ~known /\ near THEN Append(scores, n.distance)
                        ELSE IF known /\ near
                        THEN [i \in 1..Len(scores) |->
                                 IF emails[i] = n.expert_email THEN n.distance ELSE scores[i]]
                        ELSE scores
         IN  IF Len(emails2) = MaxExperts
             THEN [expert_emails |-> emails2, scores |-> scores2]
             ELSE ScanNeighborsLastWins(Tail(neighbors), emails2, scores2)

RECURSIVE ScanNeighbors(_, _, _)
ScanNeighbors(neighbors, emails, scores) ==
    IF neighbors = <<>> THEN [expert_emails |-> emails, scores |-> scores]
    ELSE LET n == Head(neighbors)
             keep == (\A i \in 1..Len(emails) : emails[i] # n.expert_email) /\ n.distance <= MaxDistance
             emails2 == IF keep THEN Append(emails, n.expert_email) ELSE emails
             scores2 == IF keep THEN Append(scores, n.distance) ELSE scores
         IN  IF Len(emails2) = MaxExperts
             THEN [expert_emails |-> emails2, scores |-> scores2]
             ELSE ScanNeighbors(Tail(neighbors), emails2, scores2)

Neighbors(st, dist) ==
    LET all == [i \in 1..Len(st) |-> [expert_email |-> st[i].expert_email, distance |-> dist[i]]]
        sorted == SelectSeq(all, LAMBDA n : n.distance <= MaxDistance)
                  \o SelectSeq(all, LAMBDA n : n.distance > MaxDistance)
    IN  SubSeq(sorted, 1, IF Len(sorted) < NResults THEN Len(sorted) ELSE NResults)

\* response[key] = value on a Python dict, the dict being the sequence of
\* its entries in insertion order: a key already present keeps its place
\* and gets the new value
DictSet(d, key, value) ==
    IF \E i \in 1..Len(d) : d[i].profile = key
    THEN [i \in 1..Len(d) |-> IF d[i].profile = key THEN [profile |-> key, experts |-> value] ELSE d[i]]
    ELSE Append(d, [profile |-> key, experts |-> value])

RECURSIVE GetExpertsRecommendationFrom(_, _, _)
GetExpertsRecommendationFrom(profiles, found, resp) ==
    IF profiles = <<>> THEN resp
    ELSE GetExpertsRecommendationFrom(
             Tail(profiles), Tail(found),
             DictSet(resp, GoogleTranslate(Head(profiles), Fr), ScanNeighbors(Head(found), <<>>, <<>>)))

GetExpertsRecommendation(profiles, st, dist) ==
    GetExpertsRecommendationFrom(profiles, [i \in 1..Len(profiles) |-> Neighbors(st, dist)], <<>>)

---------------------------------------------------------------------------
(* Requests, responses and the method table reachable through getattr     *)

PrivateMethods ==
    {"get_expert_recommendation_llm", "get_expert_skills_from_csv", "get_expert_skills_from_json",
     "get_expert_skills", "get_expert_recommendation_embeddings",
     "get_expert_recommendation_chroma_db_client", "get_expert_recommendation_vector_store",
     "populate_or_update_expert_recommendation_vector_store", "delete_expert_from_vector_store",
     "add_expert_to_vector_store", "update_expert_in_vector_store",
     "get_expert_recommendation_parser", "get_expert_recommendation_prompt",
     "get_keywords_embeddings", "get_keywords_model", "get_keywords_parser", "get_keywords_prompt",
     "get_keywords_chain", "get_nlp", "get_stop_words", "remove_stop_words",
     "get_user_emails_from_llm_response", "translate_text", "init_expert_recommendation_chain",
     "init_keywords_chain", "init_zmq", "try_get_llm_expert_recommendation",
     "get_experts_recommendation", "try_get_llm_keywords", "get_keywords", "call_method"}

TableMethods ==
    {"get_keywords", "get_experts_recommendation", "add_expert_to_vector_store",
     "update_expert_in_vector_store", "delete_expert_from_vector_store"}

MethodFound(method_name) == method_name \in PrivateMethods

Arity(method_name) ==
    CASE method_name \in {"add_expert_to_vector_store", "update_expert_in_vector_store", "translate_text"} -> 2
      [] OTHER -> 1

PlanWithoutDelete(method_name) ==
    CASE method_name = "get_keywords" -> <<"keywords">>
      [] method_name = "get_experts_recommendation" -> <<"recommend">>
      [] method_name = "add_expert_to_vector_store" -> <<"populate">>
      [] method_name = "update_expert_in_vector_store" -> <<"populate">>
      [] method_name = "delete_expert_from_vector_store" -> <<"delete">>
      [] OTHER -> <<"translate">>

Plan(method_name) ==
    CASE method_name = "get_keywords" -> <<"keywords">>
      [] method_name = "get_experts_recommendation" -> <<"recommend">>
      [] method_name = "add_expert_to_vector_store" -> <<"populate">>
      [] method_name = "update_expert_in_vector_store" -> <<"delete", "populate">>
      [] method_name = "delete_expert_from_vector_store" -> <<"delete">>
      [] OTHER -> <<"translate">>

Request(method_name, arguments) ==
    [json |-> "object", keys |-> {"method", "arguments"}, method |-> method_name,
     arguments |-> arguments]

Absent == "<absent>"

\* payloads no query_llm call produces, sent by another client of the socket
RequestWithoutMethod(arguments) ==
    [json |-> "object", keys |-> {"arguments"}, method |-> Absent, arguments |-> arguments]

RequestWithoutArguments(method_name) ==
    [json |-> "object", keys |-> {"method"}, method |-> method_name, arguments |-> <<>>]

JsonArray == [json |-> "array", keys |-> {}, method |-> Absent, arguments |-> <<>>]

DictGet(d, key, default) == IF key \in d.keys THEN d[key] ELSE default

IndexRequests ==
    {Request(m, <<t, e>>) : m \in {"add_expert_to_vector_store", "update_expert_in_vector_store"},
                            t \in Texts, e \in Emails}
    \cup {Request("delete_expert_from_vector_store", <<e>>) : e \in Emails}

UpdateRequests ==
    {Request("update_expert_in_vector_store", <<t, e>>) : t \in Texts, e \in Emails}

DispatchRequests ==
    {Request("update_expert_in_vector_store", <<T1, e>>) : e \in Emails}
    \cup {Request("add_expert_to_vector_store", <<T1, E1>>),
          Request("delete_expert_from_vector_store", <<E1>>),
          Request("delete_expert_from_vector_store", <<>>),
          Request("get_keywords", <<T1>>),
          Request("get_experts_recommendation", <<T1>>),
          Request("translate_text", <<T1, En>>),
          Request("no_such_method", <<>>),
          Request("", <<>>)}

NoData == [id |-> 0, caller |-> "", json |-> "object", keys |-> {}, method |-> "", arguments |-> <<>>]

NoneResult == [kind |-> "None", val |-> <<>>]

Success(result) == [status |-> "success", result |-> result]

Error(message) == [status |-> "error", error_message |-> message]

NoResponse == Error("")

QueryLlmOutcomeIgnoringStatus(resp) == [outcome |-> "return", value |-> NoneResult, message |-> ""]

QueryLlmOutcome(resp) ==
    IF resp.status = "success"
    THEN [outcome |-> "return", value |-> resp.result, message |-> ""]
    ELSE IF resp.status = "error"
    THEN [outcome |-> "raise", value |-> NoneResult, message |-> resp.error_message]
    ELSE [outcome |-> "return", value |-> NoneResult, message |-> ""]

---------------------------------------------------------------------------
(* State *)

VARIABLES
    is_available,   \* LLM.is_available
    store,          \* the chromadb collection expert_recommendation_vector_store
    clock,          \* the next reading of time.time()
    pc,             \* position of the dispatch loop (start_llm_processing)
    data,           \* the request the loop is processing
    steps,          \* what remains to run of the method body being executed
    response,       \* the response built by __call_method
    exc,            \* the exception caught at the dispatch boundary
    phase,          \* per caller: position in query_llm
    req,            \* per caller: the request it sent
    inbox,          \* per caller: the response on its REQ socket
    nreq,           \* number of requests sent so far
    received,       \* ids of the requests in the order the loop received them
    log,            \* the requests answered so far, in the order of the answers
    faulty,         \* whether the backends may fail in this run
    rclient,        \* retry specification: the client under test
    rscript,        \* retry specification: what the backend does at each attempt
    rresult,        \* retry specification: what the client returned
    socket_closed,  \* whether stop_llm_processing has closed LLM.socket
    context_terminated, \* whether stop_llm_processing has terminated LLM.context
    warned,         \* whether the loop has logged its "Context terminated" warning
    qneighbors,     \* recommendation scan: the neighbor list of one Role Query
    qexperts,       \* recommendation scan: the entry built for that Role Query
    ttext,          \* translation: the lines of the text to translate
    tcalls,         \* translation: the upstream calls made, in order
    server_pc,      \* position of init_server
    users_csv,      \* the users CSV file: whether it exists and its data rows
    built,          \* the components LLM.init has constructed
    app_log,        \* the error messages written to app_logger by the initialisation
    db_available,   \* Database.is_available
    user_table,     \* the rows of the User table
    todo_rows,      \* Database.populate: the CSV rows not yet turned into users
    thread_started, \* whether init_server has started the loop thread
    ktext,          \* keyword extraction: the text given to __get_keywords
    kpc,            \* keyword extraction: position of __get_keywords
    ki,             \* keyword extraction: number of sentences the loop has taken
    ksentences,     \* keyword extraction: the local list `sentences`
    kparagraphs,    \* keyword extraction: the paragraphs built so far
    klast,          \* keyword extraction: the locals of the last paragraph processed
    kkeywords,      \* keyword extraction: the local set `keywords`
    kcalls,         \* keyword extraction: calls made to each backend
    kresult,        \* keyword extraction: the list returned
    add_calls,      \* the collection.add calls made, with the id each one passed
    generic_profiles, \* recommendation: the Role Queries the generative model produced
    found_experts,  \* recommendation: the neighbor list the index returned for each Role Query
    recommended,    \* recommendation: the mapping __get_experts_recommendation returned
    stop_exc,       \* the exception stop_llm_processing ended with, NoExc when none
    update_pc,      \* position of Database.update
    session,        \* the rows of the User table as the open database session sees them
    csv_pc,         \* per request handler: position in update_user_in_csv
    csv_data        \* per request handler: the local `data` of update_user_in_csv

loopVars == <<pc, data, steps, response, exc>>

callerVars == <<phase, req, inbox, nreq>>

retryVars == <<rclient, rscript, rresult>>

zmqVars == <<socket_closed, context_terminated, warned, stop_exc>>

pureVars == <<qneighbors, qexperts, ttext, tcalls>>

serverVars == <<server_pc, users_csv, built, app_log, db_available, user_table, todo_rows, thread_started,
                update_pc, session, csv_pc, csv_data>>

profileVars == <<generic_profiles, found_experts, recommended>>

kwVars == <<ktext, kpc, ki, ksentences, kparagraphs, klast, kkeywords, kcalls, kresult>>

vars == <<is_available, store, clock, pc, data, steps, response, exc, phase, req, inbox,
          nreq, received, log, faulty, rclient, rscript, rresult,
          socket_closed, context_terminated, warned, qneighbors, qexperts, ttext, tcalls,
          server_pc, users_csv, built, app_log, db_available, user_table, todo_rows, thread_started,
          ktext, kpc, ki, ksentences, kparagraphs, klast, kkeywords, kcalls, kresult,
          add_calls, generic_profiles, found_experts, recommended, stop_exc, update_pc, session,
          csv_pc, csv_data>>

InitCsvs == {<<>>, <<[skills |-> T1, email |-> E1]>>}

NoExperts == <<>>

NoCalls == <<>>

PureIdle ==
    /\ generic_profiles = <<>>
    /\ found_experts = <<>>
    /\ recommended = <<>>
    /\ qneighbors = <<>>
    /\ qexperts = NoExperts
    /\ ttext = <<>>
    /\ tcalls = NoCalls

InitZmq ==
    /\ socket_closed = FALSE
    /\ context_terminated = FALSE
    /\ stop_exc = NoExc
    /\ warned = FALSE

NoAddCalls == <<>>

NoRetryResult == [status |-> "none", exc |-> NoExc, calls |-> 0, sleeps |-> 0, delay |-> 0]

RetryIdle ==
    /\ rclient = "profiles"
    /\ rscript = [i \in 1..MaxScript |-> "ok"]
    /\ rresult = NoRetryResult

NoParagraph == [sentences |-> <<>>, llm_keywords |-> <<>>, candidate_keywords |-> <<>>,
                keybert_keywords |-> <<>>]

NoBackendCalls == [translate |-> 0, client |-> 0, model |-> 0, retried |-> 0, ranker |-> 0]

NotReturned == <<>>

KeywordsIdle ==
    /\ ktext = <<>>
    /\ kpc = "idle"
    /\ ki = 0
    /\ ksentences = <<>>
    /\ kparagraphs = <<>>
    /\ klast = NoParagraph
    /\ kkeywords = {}
    /\ kcalls = NoBackendCalls
    /\ kresult = NotReturned

AllComponents == {"expert_recommendation_chain", "keywords_chain", "zmq"}

CsvFile(rows) == [exists |-> TRUE, rows |-> rows]

NoCsvFile == [exists |-> FALSE, rows |-> <<>>]

Users(rows) == [i \in 1..Len(rows) |-> [email |-> rows[i].email, skills |-> rows[i].skills, tags |-> <<>>]]

\* the server before init_server has run
ServerDown ==
    /\ server_pc = "start"
    /\ built = {}
    /\ app_log = <<>>
    /\ db_available = FALSE
    /\ todo_rows = <<>>
    /\ thread_started = FALSE
    /\ update_pc = "idle"
    /\ session = <<>>
    /\ csv_pc = [c \in Callers |-> "idle"]
    /\ csv_data = [c \in Callers |-> <<>>]

\* the server after init_server has run to its successful end
ServerUp ==
    /\ server_pc = "done"
    /\ built = AllComponents
    /\ app_log = <<>>
    /\ db_available = TRUE
    /\ todo_rows = <<>>
    /\ thread_started = TRUE
    /\ update_pc = "idle"
    /\ session = <<>>
    /\ csv_pc = [c \in Callers |-> "idle"]
    /\ csv_data = [c \in Callers |-> <<>>]

\* the population at clock reading clk, the translation of the failAt-th
\* owner's skills raising (0: none does)
GetExpertRecommendationVectorStoreAt(persisted, clk, csv, failAt) ==
    IF Len(persisted) = 0
    THEN PopulateOrUpdate(persisted, clk, [i \in 1..Len(csv) |-> csv[i].skills],
                          [i \in 1..Len(csv) |-> csv[i].email], failAt)
    ELSE [store |-> persisted, clock |-> clk, raised |-> NoExc]

GetExpertRecommendationVectorStore(persisted, csv) ==
    GetExpertRecommendationVectorStoreAt(persisted, 1, csv, 0)

InitService ==
    /\ is_available = TRUE
    /\ \E csv \in InitCsvs :
          LET r == GetExpertRecommendationVectorStore(<<>>, csv)
          IN  /\ store = r.store
              /\ clock = r.clock
              /\ users_csv = CsvFile(csv)
              /\ user_table = Users(csv)
    /\ ServerUp
    /\ InitZmq
    /\ add_calls = NoAddCalls
    /\ pc = "recv"
    /\ data = NoData
    /\ steps = <<>>
    /\ response = NoResponse
    /\ exc = NoExc
    /\ phase = [c \in Callers |-> "idle"]
    /\ req = [c \in Callers |-> NoData]
    /\ inbox = [c \in Callers |-> <<>>]
    /\ nreq = 0
    /\ received = <<>>
    /\ log = <<>>

Init == InitService /\ faulty = TRUE /\ RetryIdle /\ PureIdle /\ KeywordsIdle

---------------------------------------------------------------------------
(* Callers: LLM.query_llm *)

CallerSendOf(c, requests) ==
    /\ phase[c] = "idle"
    /\ nreq < MaxReq
    /\ \E r \in requests :
          req' = [req EXCEPT ![c] = [id |-> nreq + 1, caller |-> c, json |-> r.json,
                                    keys |-> r.keys, method |-> r.method,
                                    arguments |-> r.arguments]]
    /\ nreq' = nreq + 1
    /\ phase' = [phase EXCEPT ![c] = "waiting"]
    /\ UNCHANGED <<is_available, store, clock, loopVars, inbox, received, log, faulty, retryVars, zmqVars, pureVars, add_calls, serverVars, kwVars, profileVars>>

CallerSend(c) == CallerSendOf(c, DispatchRequests)

CallerSendIndex(c) == CallerSendOf(c, IndexRequests)

CallerSendUpdate(c) == CallerSendOf(c, UpdateRequests)

CallerReturn(c) ==
    /\ phase[c] = "answered"
    /\ inbox' = [inbox EXCEPT ![c] = <<>>]
    /\ req' = [req EXCEPT ![c] = NoData]
    /\ phase' = [phase EXCEPT ![c] = "idle"]
    /\ UNCHANGED <<is_available, store, clock, loopVars, nreq, received, log, faulty, retryVars, zmqVars, pureVars, add_calls, serverVars, kwVars, profileVars>>

---------------------------------------------------------------------------
(* The dispatch loop: LLM.start_llm_processing and LLM.__call_method *)

CanReceiveWhileServing == is_available

CanReceive == pc = "recv" /\ is_available

LoopRecv ==
    /\ CanReceive
    /\ \E c \in Callers :
          /\ phase[c] = "waiting"
          /\ data' = req[c]
          /\ phase' = [phase EXCEPT ![c] = "serving"]
          /\ received' = Append(received, req[c].id)
    /\ pc' = "dispatch"
    /\ UNCHANGED <<is_available, store, clock, steps, response, exc, req, inbox, nreq,
                   log, faulty, retryVars, zmqVars, pureVars, add_calls, serverVars, kwVars, profileVars>>

LoopDispatch ==
    /\ pc = "dispatch"
    /\ IF data.json # "object"
       THEN /\ exc' = AttributeError
            /\ pc' = "except"
            /\ UNCHANGED <<steps, response>>
       ELSE LET method_name == DictGet(data, "method", "")
                arguments == DictGet(data, "arguments", <<>>)
            IN  IF method_name = ""
                THEN /\ response' = Error("No method specified")
                     /\ pc' = "send"
                     /\ UNCHANGED <<steps, exc>>
                ELSE IF ~MethodFound(method_name)
                THEN /\ response' = Error("Method not found")
                     /\ pc' = "send"
                     /\ UNCHANGED <<steps, exc>>
                ELSE IF Len(arguments) # Arity(method_name)
                THEN /\ exc' = TypeError
                     /\ pc' = "except"
                     /\ UNCHANGED <<steps, response>>
                ELSE /\ steps' = Plan(method_name)
                     /\ pc' = "run"
                     /\ UNCHANGED <<response, exc>>
    /\ UNCHANGED <<is_available, store, clock, data, callerVars, received, log, faulty, retryVars, zmqVars, pureVars, add_calls, serverVars, kwVars, profileVars>>

FailChoices == IF faulty THEN {0, 1} ELSE {0}

ScriptChoices == IF faulty THEN Scripts ELSE {[i \in 1..MaxScript |-> "ok"]}

EmailArgument == data.arguments[Len(data.arguments)]

\* the outcome of one step of a method body: the index and clock after it,
\* the exception it raised (NoExc when none) and the value it returned
StepOutcomes(step) ==
    CASE step = "delete" ->
            {[store |-> DeleteExpertFromVectorStore(store, EmailArgument), clock |-> clock,
              raised |-> NoExc, result |-> NoneResult]}
      [] step = "populate" ->
            {[store |-> r.store, clock |-> r.clock, raised |-> r.raised, result |-> NoneResult] :
                r \in {PopulateOrUpdate(store, clock, <<data.arguments[1]>>, <<data.arguments[2]>>, f) :
                          f \in FailChoices}}
      [] step = "translate" ->
            {[store |-> store, clock |-> clock,
              raised |-> IF f = 1 THEN TranslateError ELSE NoExc,
              result |-> IF f = 1 THEN NoneResult
                         ELSE [kind |-> "str", val |-> <<TranslateText(data.arguments[1], data.arguments[2])>>]] :
                f \in FailChoices}
      [] step = "keywords" ->
            IF data.arguments[1] = <<>>
            THEN {[store |-> store, clock |-> clock, raised |-> NoExc,
                   result |-> [kind |-> "list", val |-> <<>>]]}
            ELSE {[store |-> store, clock |-> clock, raised |-> TranslateError, result |-> NoneResult] :
                      f \in FailChoices \ {0}}
                 \cup
                 {LET r == TryGetLlm("keywords", script)
                  IN  [store |-> store, clock |-> clock, raised |-> r.exc,
                       result |-> IF r.status = "ok"
                                  THEN [kind |-> "list",
                                        val |-> KeywordTags(TranslateText(data.arguments[1], Fr))]
                                  ELSE NoneResult] :
                      script \in ScriptChoices}
      [] OTHER ->
            {[store |-> store, clock |-> clock, raised |-> TranslateError, result |-> NoneResult] :
                 f \in FailChoices \ {0}}
            \cup
            UNION {LET r == TryGetLlm("profiles", script)
                   IN  {[store |-> store, clock |-> clock, raised |-> r.exc,
                         result |-> IF r.status = "ok"
                                    THEN [kind |-> "dict",
                                          val |-> GetExpertsRecommendation(
                                                      Sents(GoogleTranslate(data.arguments[1], En)), store, dist)]
                                    ELSE NoneResult] :
                           dist \in [1..Len(store) -> {30, 70}]} :
                      script \in ScriptChoices}

LoopRun ==
    /\ pc = "run"
    /\ \E o \in StepOutcomes(Head(steps)) :
          /\ store' = o.store
          /\ clock' = o.clock
          /\ IF o.raised # NoExc
             THEN /\ exc' = o.raised
                  /\ pc' = "except"
                  /\ steps' = <<>>
                  /\ UNCHANGED response
             ELSE IF Tail(steps) = <<>>
             THEN /\ response' = Success(o.result)
                  /\ pc' = "send"
                  /\ steps' = <<>>
                  /\ UNCHANGED exc
             ELSE /\ steps' = Tail(steps)
                  /\ UNCHANGED <<pc, response, exc>>
    /\ UNCHANGED <<is_available, data, callerVars, received, log, faulty, retryVars, zmqVars, pureVars, add_calls, serverVars, kwVars, profileVars>>

Reply(resp) ==
    /\ inbox' = [inbox EXCEPT ![data.caller] = <<resp>>]
    /\ phase' = [phase EXCEPT ![data.caller] = "answered"]
    /\ log' = Append(log, [id |-> data.id, method |-> data.method, arguments |-> data.arguments,
                           status |-> resp.status])

LoopSend ==
    /\ pc = "send"
    /\ IF socket_closed
       THEN /\ exc' = ZmqError
            /\ pc' = "except"
            /\ UNCHANGED <<data, response, inbox, phase, log>>
       ELSE /\ Reply(response)
            /\ pc' = "recv"
            /\ data' = NoData
            /\ response' = NoResponse
            /\ UNCHANGED exc
    /\ UNCHANGED <<is_available, store, clock, steps, req, nreq, received, faulty, retryVars,
                   zmqVars, pureVars, add_calls, serverVars, kwVars, profileVars>>

LoopExceptStopsLoop ==
    /\ pc = "except"
    /\ Reply(Error(exc))
    /\ is_available' = FALSE
    /\ pc' = "recv"
    /\ data' = NoData
    /\ exc' = NoExc
    /\ UNCHANGED <<store, clock, steps, response, req, nreq, received, faulty, retryVars, zmqVars, pureVars, add_calls, serverVars, kwVars, profileVars>>

LoopExceptWithoutReply ==
    /\ pc = "except"
    /\ pc' = "recv"
    /\ data' = NoData
    /\ exc' = NoExc
    /\ UNCHANGED <<is_available, store, clock, steps, response, callerVars, received, log, faulty,
                   retryVars, zmqVars, pureVars, add_calls, serverVars, kwVars, profileVars>>

LoopExcept ==
    /\ pc = "except"
    /\ IF socket_closed
       THEN /\ pc' = "escaped"
            /\ UNCHANGED <<data, exc, inbox, phase, log>>
       ELSE /\ Reply(Error(exc))
            /\ pc' = "recv"
            /\ data' = NoData
            /\ exc' = NoExc
    /\ UNCHANGED <<is_available, store, clock, steps, response, req, nreq, received, faulty,
                   retryVars, zmqVars, pureVars, add_calls, serverVars, kwVars, profileVars>>

Loop == LoopRecv \/ LoopDispatch \/ LoopRun \/ LoopSend \/ LoopExcept

Next ==
    \/ \E c \in Callers : CallerSend(c)
    \/ \E c \in Callers : CallerReturn(c)
    \/ LoopRecv
    \/ LoopDispatch
    \/ LoopRun
    \/ LoopSend
    \/ LoopExcept

Spec == Init /\ [][Next]_vars

---------------------------------------------------------------------------
(* Callers that maintain the index: add, update and delete requests for    *)
(* every skills text and owner                                             *)

NextIndex ==
    \/ \E c \in Callers : CallerSendIndex(c)
    \/ \E c \in Callers : CallerReturn(c)
    \/ LoopRecv
    \/ LoopDispatch
    \/ LoopRun
    \/ LoopSend
    \/ LoopExcept

IndexSpec == Init /\ [][NextIndex]_vars

---------------------------------------------------------------------------
(* Callers that only issue update requests, with a fairly scheduled loop   *)

InitUpdate == InitService /\ faulty \in BOOLEAN /\ RetryIdle /\ PureIdle /\ KeywordsIdle

NextUpdate ==
    \/ \E c \in Callers : CallerSendUpdate(c)
    \/ \E c \in Callers : CallerReturn(c)
    \/ LoopRecv
    \/ LoopDispatch
    \/ LoopRun
    \/ LoopSend
    \/ LoopExcept

UpdateSpec == InitUpdate /\ [][NextUpdate]_vars /\ WF_vars(Loop)

---------------------------------------------------------------------------
(* Shutdown: LLM.stop_llm_processing, run by the exit handler on another   *)
(* thread than the loop, and what the loop does once its socket is closed. *)
(* A loop found at the top of its body is either about to test             *)
(* is_available or blocked in recv_json; closing a socket another thread   *)
(* is blocked on makes that recv_json end with either of the library's     *)
(* two errors.                                                             *)

StopRequests ==
    {Request("update_expert_in_vector_store", <<T1, E1>>),
     Request("delete_expert_from_vector_store", <<>>)}

CallerSendWhileAvailable(c) == is_available /\ CallerSendOf(c, StopRequests)

\* whether self.socket is still None: it is until __init_zmq has created
\* it; when __init_zmq raised, it did so before or after creating it
SocketIsNone ==
    IF "zmq" \in built THEN {FALSE}
    ELSE IF \E i \in 1..Len(app_log) : app_log[i] = LlmInitError("zmq") THEN {FALSE, TRUE}
    ELSE {TRUE}

StopLlmProcessing ==
    /\ server_pc # "start"
    /\ is_available' = FALSE
    /\ \E none \in SocketIsNone :
          IF none
          THEN /\ stop_exc' = NoneTypeError
               /\ UNCHANGED <<socket_closed, context_terminated>>
          ELSE /\ socket_closed' = TRUE
               /\ context_terminated' = TRUE
               /\ stop_exc' = NoExc
    /\ UNCHANGED <<store, clock, loopVars, callerVars, received, log, faulty, retryVars, warned,
                   pureVars, add_calls, serverVars, kwVars, profileVars>>

RecvOutcomesOnClosedSocket == {"ContextTerminated", "ZMQError"}

LoopStopped ==
    /\ pc = "recv"
    /\ ~is_available
    /\ \/ /\ pc' = "done"
          /\ UNCHANGED <<exc, warned>>
       \/ \E e \in RecvOutcomesOnClosedSocket :
             IF e = "ContextTerminated"
             THEN /\ pc' = "done"
                  /\ warned' = TRUE
                  /\ UNCHANGED exc
             ELSE /\ pc' = "except"
                  /\ exc' = ZmqError
                  /\ UNCHANGED warned
    /\ UNCHANGED <<is_available, store, clock, data, steps, response, callerVars, received, log,
                   faulty, retryVars, socket_closed, context_terminated, stop_exc, pureVars, add_calls, serverVars, kwVars, profileVars>>

LoopThread == Loop \/ LoopStopped

NextStop ==
    \/ \E c \in Callers : CallerSendWhileAvailable(c)
    \/ \E c \in Callers : CallerReturn(c)
    \/ LoopRecv
    \/ LoopDispatch
    \/ LoopRun
    \/ LoopSend
    \/ LoopExcept
    \/ LoopStopped
    \/ StopLlmProcessing

StopSpec == Init /\ [][NextStop]_vars /\ WF_vars(LoopThread)

---------------------------------------------------------------------------
(* The retrying query clients on their own: every script of backend        *)
(* behaviour, for both clients                                             *)

InitRetry ==
    /\ is_available = FALSE
    /\ store = <<>>
    /\ clock = 1
    /\ pc = "recv"
    /\ data = NoData
    /\ steps = <<>>
    /\ response = NoResponse
    /\ exc = NoExc
    /\ phase = [c \in Callers |-> "idle"]
    /\ req = [c \in Callers |-> NoData]
    /\ inbox = [c \in Callers |-> <<>>]
    /\ nreq = 0
    /\ received = <<>>
    /\ log = <<>>
    /\ faulty = TRUE
    /\ rclient \in Clients
    /\ rscript \in Scripts
    /\ rresult = NoRetryResult
    /\ InitZmq
    /\ PureIdle
    /\ ServerDown
    /\ users_csv = NoCsvFile
    /\ user_table = <<>>
    /\ KeywordsIdle
    /\ add_calls = NoAddCalls

TryGetLlmExpertRecommendation ==
    /\ rclient = "profiles"
    /\ rresult = NoRetryResult
    /\ rresult' = TryGetLlm("profiles", rscript)
    /\ UNCHANGED <<is_available, store, clock, loopVars, callerVars, received, log, faulty, rclient, rscript,
                   zmqVars, pureVars, add_calls, serverVars, kwVars, profileVars>>

TryGetLlmKeywords ==
    /\ rclient = "keywords"
    /\ rresult = NoRetryResult
    /\ rresult' = TryGetLlm("keywords", rscript)
    /\ UNCHANGED <<is_available, store, clock, loopVars, callerVars, received, log, faulty, rclient, rscript,
                   zmqVars, pureVars, add_calls, serverVars, kwVars, profileVars>>

NextRetry == TryGetLlmExpertRecommendation \/ TryGetLlmKeywords

RetrySpec == InitRetry /\ [][NextRetry]_vars

---------------------------------------------------------------------------
(* The scan of one Role Query's neighbor list on its own.  The index       *)
(* returns the list neighbor by neighbor, at most MaxNeighbors of them,    *)
(* owners being numbered in the order of their first occurrence and the    *)
(* j-th distance being within 0.5 (51 - j hundredths, 0.5 itself for the   *)
(* first) or beyond it (50 + j); the scan runs on whatever list has been   *)
(* returned.                                                               *)

Distances(j) == {51 - j, 50 + j}

Owner(k) == <<100 + k>>

OwnersIn(l) == {l[i].expert_email : i \in 1..Len(l)}

ServiceOff ==
    /\ is_available = FALSE
    /\ store = <<>>
    /\ clock = 1
    /\ pc = "recv"
    /\ data = NoData
    /\ steps = <<>>
    /\ response = NoResponse
    /\ exc = NoExc
    /\ phase = [c \in Callers |-> "idle"]
    /\ req = [c \in Callers |-> NoData]
    /\ inbox = [c \in Callers |-> <<>>]
    /\ nreq = 0
    /\ received = <<>>
    /\ log = <<>>
    /\ faulty = TRUE
    /\ InitZmq
    /\ ServerDown
    /\ users_csv = NoCsvFile
    /\ user_table = <<>>
    /\ add_calls = NoAddCalls

InitRecommend ==
    /\ ServiceOff
    /\ KeywordsIdle
    /\ RetryIdle
    /\ generic_profiles = <<>>
    /\ found_experts = <<>>
    /\ recommended = <<>>
    /\ qneighbors = <<>>
    /\ qexperts = NoExperts
    /\ ttext = <<>>
    /\ tcalls = NoCalls

QueryNeighbor ==
    /\ qexperts = NoExperts
    /\ Len(qneighbors) < MaxNeighbors
    /\ \E k \in 1..(Cardinality(OwnersIn(qneighbors)) + 1), d \in Distances(Len(qneighbors) + 1) :
          qneighbors' = Append(qneighbors, [expert_email |-> Owner(k), distance |-> d])
    /\ UNCHANGED <<is_available, store, clock, loopVars, callerVars, received, log, faulty,
                   retryVars, zmqVars, add_calls, qexperts, ttext, tcalls, serverVars, kwVars, profileVars>>

ScanFoundExperts ==
    /\ qexperts = NoExperts
    /\ qexperts' = <<ScanNeighbors(qneighbors, <<>>, <<>>)>>
    /\ UNCHANGED <<is_available, store, clock, loopVars, callerVars, received, log, faulty,
                   retryVars, zmqVars, add_calls, qneighbors, ttext, tcalls, serverVars, kwVars, profileVars>>

NextRecommend == QueryNeighbor \/ ScanFoundExperts

RecommendSpec == InitRecommend /\ [][NextRecommend]_vars

---------------------------------------------------------------------------
(* __get_experts_recommendation from the Role Queries on: the generative   *)
(* model produced the Role Queries (each a one-word string; 1 and 11 are   *)
(* two strings with the same French translation) and the index returned    *)
(* one neighbor list per Role Query.                                       *)

ProfileTexts == {<<1>>, <<11>>, <<2>>}

NeighborLists ==
    {<<>>,
     <<[expert_email |-> E1, distance |-> 30]>>,
     <<[expert_email |-> E2, distance |-> 40]>>,
     <<[expert_email |-> E1, distance |-> 20], [expert_email |-> E2, distance |-> 45]>>,
     <<[expert_email |-> E2, distance |-> 30], [expert_email |-> E1, distance |-> 70]>>}

InitProfiles ==
    /\ ServiceOff
    /\ KeywordsIdle
    /\ RetryIdle
    /\ qneighbors = <<>>
    /\ qexperts = NoExperts
    /\ ttext = <<>>
    /\ tcalls = NoCalls
    /\ \E n \in 0..MaxProfiles :
          /\ generic_profiles \in [1..n -> ProfileTexts]
          /\ found_experts \in [1..n -> NeighborLists]
    /\ recommended = <<>>

GetExpertsRecommendationLoop ==
    /\ recommended = <<>>
    /\ recommended' = <<GetExpertsRecommendationFrom(generic_profiles, found_experts, <<>>)>>
    /\ UNCHANGED <<is_available, store, clock, loopVars, callerVars, received, log, faulty,
                   retryVars, zmqVars, add_calls, pureVars, serverVars, kwVars,
                   generic_profiles, found_experts>>

NextProfiles == GetExpertsRecommendationLoop

ProfilesSpec == InitProfiles /\ [][NextProfiles]_vars

---------------------------------------------------------------------------
(* __translate_text on its own, with the lengths the code computes.  A     *)
(* text is the sequence of the lengths of its lines (the text is the lines *)
(* joined by '\n'; no line starts with white space); an upstream call is   *)
(* recorded with the positions of the lines it carries and the number of   *)
(* characters it receives.                                                 *)

LineLens == {0, 1000, 2500, 5000, 6000}

LongTexts == UNION {[1..n -> LineLens] : n \in 1..MaxLines}

RECURSIVE SumLens(_)
SumLens(lens) == IF lens = <<>> THEN 0 ELSE Head(lens) + SumLens(Tail(lens))

TextLen(lens) == SumLens(lens) + Len(lens) - 1

EmptyChunk == [lines |-> <<>>, chars |-> 0]

RECURSIVE LstripSplit(_, _)
LstripSplit(lens, pos) ==
    IF lens = <<>> THEN <<>>
    ELSE IF Head(lens) = 0 THEN LstripSplit(Tail(lens), pos + 1)
    ELSE [i \in 1..Len(lens) |-> [pos |-> pos + i - 1, len |-> lens[i]]]

RECURSIVE ChunkCalls(_, _, _)
ChunkCalls(sentences, chunk, calls) ==
    IF sentences = <<>>
    THEN IF chunk.lines # <<>> THEN Append(calls, chunk) ELSE calls
    ELSE LET sentence == Head(sentences)
         IN  IF sentence.len = 0
             THEN ChunkCalls(Tail(sentences), chunk, calls)
             ELSE IF chunk.chars >= ChunkLimit
             THEN ChunkCalls(Tail(sentences), EmptyChunk, Append(calls, chunk))
             ELSE ChunkCalls(Tail(sentences),
                             [lines |-> Append(chunk.lines, sentence.pos),
                              chars |-> chunk.chars + sentence.len + 1],
                             calls)

WholeText(lens) == [lines |-> [i \in 1..Len(lens) |-> i], chars |-> TextLen(lens)]

TranslateCallsAlwaysChunked(lens) == ChunkCalls(LstripSplit(lens, 1), EmptyChunk, <<>>)

TranslateCalls(lens) ==
    IF TextLen(lens) <= TranslationCap
    THEN <<WholeText(lens)>>
    ELSE ChunkCalls(LstripSplit(lens, 1), EmptyChunk, <<>>)

InitTranslate ==
    /\ ServiceOff
    /\ KeywordsIdle
    /\ RetryIdle
    /\ generic_profiles = <<>>
    /\ found_experts = <<>>
    /\ recommended = <<>>
    /\ qneighbors = <<>>
    /\ qexperts = NoExperts
    /\ ttext \in LongTexts
    /\ tcalls = NoCalls

TranslateTextCalls ==
    /\ tcalls = NoCalls
    /\ tcalls' = <<TranslateCalls(ttext)>>
    /\ UNCHANGED <<is_available, store, clock, loopVars, callerVars, received, log, faulty,
                   retryVars, zmqVars, add_calls, qneighbors, qexperts, ttext, serverVars, kwVars, profileVars>>

NextTranslate == TranslateTextCalls

TranslateSpec == InitTranslate /\ [][NextTranslate]_vars

---------------------------------------------------------------------------
(* Start-up: init_server (app.py), LLM.init (ai.py) and Database.init      *)
(* (database.py), run by one thread, which is also the thread of caller    *)
(* "c1" when Database.populate calls query_llm.  The loop thread exists    *)
(* only once init_server has started it.                                   *)

NoStep == "none"

InitSteps == <<"expert_recommendation_chain", "keywords_chain", "zmq">>

BuiltBefore(failing) ==
    {InitSteps[i] : i \in {j \in 1..Len(InitSteps) : \A k \in 1..j : InitSteps[k] # failing}}

CsvMissingError == <<"init_server", "users_csv_file does not exist">>

LlmUnavailableError == <<"init_server", "LLM is not available">>

DatabaseUnavailableError == <<"init_server", "Database is not available">>

DatabaseInitError == <<"Database.init", "exception">>

UserTables == {<<>>, <<[email |-> E2, skills |-> T1, tags |-> <<>>]>>}

AvailableAfterInitAlways(raised, before) == TRUE

AvailableAfterInit(raised, before) == IF raised = NoStep THEN TRUE ELSE before

InitServer ==
    /\ is_available = FALSE
    /\ store = <<>>
    /\ clock = 1
    /\ pc = "recv"
    /\ data = NoData
    /\ steps = <<>>
    /\ response = NoResponse
    /\ exc = NoExc
    /\ phase = [c \in Callers |-> "idle"]
    /\ req = [c \in Callers |-> NoData]
    /\ inbox = [c \in Callers |-> <<>>]
    /\ nreq = 0
    /\ received = <<>>
    /\ log = <<>>
    /\ faulty = TRUE
    /\ InitZmq
    /\ RetryIdle
    /\ PureIdle
    /\ KeywordsIdle
    /\ ServerDown
    /\ users_csv \in {NoCsvFile} \cup {CsvFile(rows) : rows \in InitCsvs}
    /\ user_table \in UserTables
    /\ add_calls = NoAddCalls

InitServerStart ==
    /\ server_pc = "start"
    /\ IF ~users_csv.exists
       THEN /\ app_log' = Append(app_log, CsvMissingError)
            /\ server_pc' = "done"
       ELSE /\ server_pc' = "llm_init"
            /\ UNCHANGED app_log
    /\ UNCHANGED <<is_available, store, clock, loopVars, callerVars, received, log, faulty,
                   retryVars, zmqVars, pureVars, add_calls, users_csv, built, db_available, user_table,
                   todo_rows, thread_started, kwVars, profileVars, update_pc, session, csv_pc, csv_data>>

\* what LLM.init leaves in the persistent collection when the given step
\* raises.  __init_expert_recommendation_chain can raise before it reaches
\* the collection (nothing added), in the population, when the translation
\* of an owner's skills raises (the owners before that one added), or after
\* it (every owner added); the later steps run on a finished population.
ChainOutcomes(raised) ==
    LET populate(failAt) ==
            GetExpertRecommendationVectorStoreAt(store, clock, users_csv.rows, failAt)
    IN  IF raised = "expert_recommendation_chain"
        THEN {[store |-> store, clock |-> clock, raised |-> NoExc]}
             \cup {populate(failAt) : failAt \in 0..Len(users_csv.rows)}
        ELSE {populate(0)}

LlmInit ==
    /\ server_pc = "llm_init"
    /\ \E raised \in {NoStep} \cup {InitSteps[i] : i \in 1..Len(InitSteps)} :
          /\ built' = BuiltBefore(raised)
          /\ is_available' = AvailableAfterInit(raised, is_available)
          /\ app_log' = IF raised = NoStep THEN app_log ELSE Append(app_log, LlmInitError(raised))
          /\ \E r \in ChainOutcomes(raised) :
                store' = r.store /\ clock' = r.clock
    /\ server_pc' = "llm_checked"
    /\ UNCHANGED <<loopVars, callerVars, received, log, faulty, retryVars, zmqVars, pureVars, add_calls,
                   users_csv, db_available, user_table, todo_rows, thread_started, kwVars, profileVars, update_pc, session, csv_pc, csv_data>>

InitServerCheckLlm ==
    /\ server_pc = "llm_checked"
    /\ IF ~is_available
       THEN /\ app_log' = Append(app_log, LlmUnavailableError)
            /\ server_pc' = "done"
       ELSE /\ server_pc' = "db_init"
            /\ UNCHANGED app_log
    /\ UNCHANGED <<is_available, store, clock, loopVars, callerVars, received, log, faulty,
                   retryVars, zmqVars, pureVars, add_calls, users_csv, built, db_available, user_table,
                   todo_rows, thread_started, kwVars, profileVars, update_pc, session, csv_pc, csv_data>>

DatabaseInit ==
    /\ server_pc = "db_init"
    /\ \E raises \in BOOLEAN :
          IF raises
          THEN /\ app_log' = Append(app_log, DatabaseInitError)
               /\ server_pc' = "db_checked"
               /\ UNCHANGED <<db_available, todo_rows>>
          ELSE IF user_table # <<>>
          THEN /\ db_available' = TRUE
               /\ server_pc' = "db_checked"
               /\ UNCHANGED <<app_log, todo_rows>>
          ELSE /\ todo_rows' = users_csv.rows
               /\ server_pc' = "db_populate"
               /\ UNCHANGED <<app_log, db_available>>
    /\ UNCHANGED <<is_available, store, clock, loopVars, callerVars, received, log, faulty,
                   retryVars, zmqVars, pureVars, add_calls, users_csv, built, user_table, thread_started,
                   kwVars, profileVars, update_pc, session, csv_pc, csv_data>>

\* Database.populate, one step per CSV row: create_user_from_csv_row sends
\* its get_keywords request and waits in query_llm for the response
DatabasePopulate ==
    /\ server_pc = "db_populate"
    /\ phase["c1"] \in {"idle", "answered"}
    /\ IF todo_rows = <<>>
       THEN /\ db_available' = TRUE
            /\ server_pc' = "db_checked"
            /\ UNCHANGED <<callerVars, user_table, todo_rows, app_log>>
       ELSE IF phase["c1"] = "idle"
       THEN /\ req' = [req EXCEPT !["c1"] =
                          [id |-> nreq + 1, caller |-> "c1", json |-> "object",
                           keys |-> {"method", "arguments"}, method |-> "get_keywords",
                           arguments |-> <<Head(todo_rows).skills>>]]
            /\ nreq' = nreq + 1
            /\ phase' = [phase EXCEPT !["c1"] = "waiting"]
            /\ UNCHANGED <<inbox, db_available, server_pc, user_table, todo_rows, app_log>>
       ELSE LET o == QueryLlmOutcome(inbox["c1"][1])
            IN  /\ inbox' = [inbox EXCEPT !["c1"] = <<>>]
                /\ req' = [req EXCEPT !["c1"] = NoData]
                /\ phase' = [phase EXCEPT !["c1"] = "idle"]
                /\ UNCHANGED <<nreq, db_available>>
                /\ IF o.outcome = "return"
                   THEN /\ user_table' = Append(user_table, [email |-> Head(todo_rows).email,
                                                             skills |-> Head(todo_rows).skills,
                                                             tags |-> o.value.val])
                        /\ todo_rows' = Tail(todo_rows)
                        /\ UNCHANGED <<server_pc, app_log>>
                   ELSE /\ user_table' = <<>>
                        /\ todo_rows' = <<>>
                        /\ app_log' = Append(app_log, DatabaseInitError)
                        /\ server_pc' = "db_checked"
    /\ UNCHANGED <<is_available, store, clock, loopVars, received, log, faulty, retryVars,
                   zmqVars, pureVars, add_calls, users_csv, built, thread_started, kwVars, profileVars, update_pc, session, csv_pc, csv_data>>

InitServerCheckDb ==
    /\ server_pc = "db_checked"
    /\ IF ~db_available
       THEN /\ app_log' = Append(app_log, DatabaseUnavailableError)
            /\ UNCHANGED thread_started
       ELSE /\ thread_started' = TRUE
            /\ UNCHANGED app_log
    /\ server_pc' = "done"
    /\ UNCHANGED <<is_available, store, clock, loopVars, callerVars, received, log, faulty,
                   retryVars, zmqVars, pureVars, add_calls, users_csv, built, db_available, user_table,
                   todo_rows, kwVars, profileVars, update_pc, session, csv_pc, csv_data>>

InitThread ==
    InitServerStart \/ LlmInit \/ InitServerCheckLlm \/ DatabaseInit \/ DatabasePopulate
    \/ InitServerCheckDb

\* a route handler of the running server: it calls query_llm only when both
\* services are marked available
CallerSendAfterInit(c) ==
    /\ server_pc = "done"
    /\ is_available
    /\ db_available
    /\ CallerSendOf(c, StopRequests)

\* the route get_keywords_from_user_expertise: it tests llm.is_available
\* only, then calls query_llm
GetKeywordsFromUserExpertise(c) ==
    /\ server_pc = "done"
    /\ is_available
    /\ CallerSendOf(c, {Request("get_keywords", <<T1>>)})

ThreadRecv == thread_started /\ LoopRecv

StartedLoop == ThreadRecv \/ LoopDispatch \/ LoopRun \/ LoopSend \/ LoopExcept

NextInitServer ==
    \/ InitServerStart
    \/ LlmInit
    \/ InitServerCheckLlm
    \/ DatabaseInit
    \/ DatabasePopulate
    \/ InitServerCheckDb
    \/ \E c \in Callers : CallerSendAfterInit(c)
    \/ \E c \in Callers : GetKeywordsFromUserExpertise(c)
    \/ \E c \in Callers : CallerReturn(c)
    \/ ThreadRecv
    \/ LoopDispatch
    \/ LoopRun
    \/ LoopSend
    \/ LoopExcept

InitServerSpec ==
    InitServer /\ [][NextInitServer]_vars /\ WF_vars(InitThread) /\ WF_vars(StartedLoop)

---------------------------------------------------------------------------
(* The exit handler: init_server registers stop_llm_processing with atexit *)
(* before anything else can fail, so the handler runs when the process     *)
(* ends, however far the initialisation got, and may be called again.      *)

NextExit == InitThread \/ StopLlmProcessing

ExitSpec == InitServer /\ [][NextExit]_vars

---------------------------------------------------------------------------
(* Restarts of the server process on the same persistent collection: every *)
(* users CSV of up to two owners, LLM.init as init_server runs it, and the *)
(* process ending at any point and being started again.  The collection    *)
(* and the CSV file are on disk and survive; everything else is rebuilt.   *)

RestartCsvs ==
    {<<>>}
    \cup {<<[skills |-> t, email |-> e]>> : t \in Texts, e \in Emails}
    \cup {<<[skills |-> t1, email |-> E1], [skills |-> t2, email |-> E2]>> : t1 \in Texts, t2 \in Texts}
    \cup {<<[skills |-> t2, email |-> E2], [skills |-> t1, email |-> E1]>> : t1 \in Texts, t2 \in Texts}

InitRestart ==
    /\ is_available = FALSE
    /\ store = <<>>
    /\ clock = 1
    /\ pc = "recv"
    /\ data = NoData
    /\ steps = <<>>
    /\ response = NoResponse
    /\ exc = NoExc
    /\ phase = [c \in Callers |-> "idle"]
    /\ req = [c \in Callers |-> NoData]
    /\ inbox = [c \in Callers |-> <<>>]
    /\ nreq = 0
    /\ received = <<>>
    /\ log = <<>>
    /\ faulty = TRUE
    /\ InitZmq
    /\ RetryIdle
    /\ PureIdle
    /\ KeywordsIdle
    /\ ServerDown
    /\ users_csv \in {CsvFile(rows) : rows \in RestartCsvs}
    /\ user_table = <<>>
    /\ add_calls = NoAddCalls

ProcessRestart ==
    /\ server_pc # "start"
    /\ server_pc' = "start"
    /\ is_available' = FALSE
    /\ built' = {}
    /\ app_log' = <<>>
    /\ UNCHANGED <<store, clock, loopVars, callerVars, received, log, faulty, retryVars, zmqVars,
                   pureVars, add_calls, users_csv, db_available, user_table, todo_rows,
                   thread_started, kwVars, profileVars, update_pc, session, csv_pc, csv_data>>

NextRestart == InitServerStart \/ LlmInit \/ InitServerCheckLlm \/ ProcessRestart

RestartSpec == InitRestart /\ [][NextRestart]_vars

---------------------------------------------------------------------------
(* Database.update on a running server, called by upload_csv or by the     *)
(* weekly check with a new users CSV.  The thread that runs it is caller   *)
(* "c1" of the dispatch loop; user_table holds the committed rows, session *)
(* the rows as the open session sees them, with the changes not yet        *)
(* committed.  Only the columns email and skills are modelled.             *)

DatabaseUpdateError == <<"Database.update", "exception">>

\* User.query.filter(User.email == email).first(): the position of the
\* first such row, 0 for None
FirstUser(rows, email) ==
    IF \E i \in 1..Len(rows) : rows[i].email = email
    THEN CHOOSE i \in 1..Len(rows) :
             rows[i].email = email /\ \A j \in 1..(i - 1) : rows[j].email # email
    ELSE 0

\* query_llm up to its recv_json, on the updating thread
QueryLlmSend(method_name, arguments) ==
    /\ req' = [req EXCEPT !["c1"] = [id |-> nreq + 1, caller |-> "c1", json |-> "object",
                                     keys |-> {"method", "arguments"}, method |-> method_name,
                                     arguments |-> arguments]]
    /\ nreq' = nreq + 1
    /\ phase' = [phase EXCEPT !["c1"] = "waiting"]

InitDbUpdate ==
    /\ is_available = TRUE
    /\ \E old \in InitCsvs, new \in RestartCsvs :
          LET r == GetExpertRecommendationVectorStore(<<>>, old)
          IN  /\ store = r.store
              /\ clock = r.clock
              /\ user_table = Users(old)
              /\ users_csv = CsvFile(new)
    /\ ServerUp
    /\ InitZmq
    /\ add_calls = NoAddCalls
    /\ pc = "recv"
    /\ data = NoData
    /\ steps = <<>>
    /\ response = NoResponse
    /\ exc = NoExc
    /\ phase = [c \in Callers |-> "idle"]
    /\ req = [c \in Callers |-> NoData]
    /\ inbox = [c \in Callers |-> <<>>]
    /\ nreq = 0
    /\ received = <<>>
    /\ log = <<>>
    /\ faulty = TRUE
    /\ RetryIdle
    /\ PureIdle
    /\ KeywordsIdle

DatabaseUpdateStart ==
    /\ update_pc = "idle"
    /\ is_available
    /\ db_available
    /\ db_available' = FALSE
    /\ todo_rows' = users_csv.rows
    /\ session' = user_table
    /\ update_pc' = "row"
    /\ UNCHANGED <<is_available, store, clock, loopVars, callerVars, received, log, faulty, retryVars,
                   zmqVars, pureVars, add_calls, server_pc, users_csv, built, app_log, user_table,
                   thread_started, kwVars, profileVars, csv_pc, csv_data>>

\* the head of the loop over the rows, up to the first query_llm of the row
\* or, after the last row, the commit
DatabaseUpdateRow ==
    /\ update_pc = "row"
    /\ phase["c1"] = "idle"
    /\ IF todo_rows = <<>>
       THEN /\ user_table' = session
            /\ session' = <<>>
            /\ db_available' = TRUE
            /\ update_pc' = "idle"
            /\ UNCHANGED <<callerVars, todo_rows>>
       ELSE LET row == Head(todo_rows)
                user == FirstUser(session, row.email)
            IN  IF user # 0 /\ session[user].skills = row.skills
                THEN /\ todo_rows' = Tail(todo_rows)
                     /\ UNCHANGED <<callerVars, session, user_table, db_available, update_pc>>
                ELSE IF user # 0
                THEN /\ session' = [session EXCEPT ![user].skills = row.skills]
                     /\ QueryLlmSend("get_keywords", <<row.skills>>)
                     /\ update_pc' = "tags"
                     /\ UNCHANGED <<inbox, todo_rows, user_table, db_available>>
                ELSE /\ QueryLlmSend("get_keywords", <<row.skills>>)
                     /\ update_pc' = "new_tags"
                     /\ UNCHANGED <<inbox, session, todo_rows, user_table, db_available>>
    /\ UNCHANGED <<is_available, store, clock, loopVars, received, log, faulty, retryVars, zmqVars,
                   pureVars, add_calls, server_pc, users_csv, built, app_log, thread_started,
                   kwVars, profileVars, csv_pc, csv_data>>

\* query_llm returns or raises on the updating thread; what follows up to
\* the next query_llm, the next row, or the rollback of the except clause
DatabaseUpdateAnswered ==
    /\ update_pc \in {"tags", "update", "new_tags", "add"}
    /\ phase["c1"] = "answered"
    /\ LET o == QueryLlmOutcome(inbox["c1"][1])
           row == Head(todo_rows)
           user == FirstUser(session, row.email)
       IN  /\ inbox' = [inbox EXCEPT !["c1"] = <<>>]
           /\ IF o.outcome = "raise"
              THEN /\ session' = <<>>
                   /\ todo_rows' = <<>>
                   /\ app_log' = Append(app_log, DatabaseUpdateError)
                   /\ update_pc' = "idle"
                   /\ req' = [req EXCEPT !["c1"] = NoData]
                   /\ phase' = [phase EXCEPT !["c1"] = "idle"]
                   /\ UNCHANGED nreq
              ELSE IF update_pc = "tags"
              THEN /\ session' = [session EXCEPT ![user].tags = o.value.val]
                   /\ QueryLlmSend("update_expert_in_vector_store", <<row.skills, row.email>>)
                   /\ update_pc' = "update"
                   /\ UNCHANGED <<todo_rows, app_log>>
              ELSE IF update_pc = "new_tags"
              THEN /\ session' = Append(session, [email |-> row.email, skills |-> row.skills,
                                                   tags |-> o.value.val])
                   /\ QueryLlmSend("add_expert_to_vector_store", <<row.skills, row.email>>)
                   /\ update_pc' = "add"
                   /\ UNCHANGED <<todo_rows, app_log>>
              ELSE /\ todo_rows' = Tail(todo_rows)
                   /\ update_pc' = "row"
                   /\ req' = [req EXCEPT !["c1"] = NoData]
                   /\ phase' = [phase EXCEPT !["c1"] = "idle"]
                   /\ UNCHANGED <<nreq, session, app_log>>
    /\ UNCHANGED <<is_available, store, clock, loopVars, received, log, faulty, retryVars, zmqVars,
                   pureVars, add_calls, server_pc, users_csv, built, db_available, user_table,
                   thread_started, kwVars, profileVars, csv_pc, csv_data>>

NextDbUpdate ==
    \/ DatabaseUpdateStart
    \/ DatabaseUpdateRow
    \/ DatabaseUpdateAnswered
    \/ LoopRecv
    \/ LoopDispatch
    \/ LoopRun
    \/ LoopSend
    \/ LoopExcept

DbUpdateSpec == InitDbUpdate /\ [][NextDbUpdate]_vars

---------------------------------------------------------------------------
(* update_user_in_csv run by two request handlers, each for a user of its  *)
(* own and with its own new skills text.  The handlers run in different     *)
(* threads or worker processes and share nothing but the CSV file, which   *)
(* read_csv reads whole and write_csv rewrites whole.                      *)

UserOf(c) == IF c = "c1" THEN E1 ELSE E2

\* the rows with the skills of the first row of that user replaced
SetSkills(rows, email, skills) ==
    [i \in 1..Len(rows) |->
        IF i = FirstUser(rows, email) THEN [rows[i] EXCEPT !.skills = skills] ELSE rows[i]]

InitCsvUpdate ==
    /\ is_available = TRUE
    /\ \E csv \in RestartCsvs :
          LET r == GetExpertRecommendationVectorStore(<<>>, csv)
          IN  /\ store = r.store
              /\ clock = r.clock
              /\ user_table = Users(csv)
              /\ users_csv = CsvFile(csv)
    /\ ServerUp
    /\ InitZmq
    /\ add_calls = NoAddCalls
    /\ pc = "recv"
    /\ data = NoData
    /\ steps = <<>>
    /\ response = NoResponse
    /\ exc = NoExc
    /\ phase = [c \in Callers |-> "idle"]
    /\ req = [c \in Callers |-> NoData]
    /\ inbox = [c \in Callers |-> <<>>]
    /\ nreq = 0
    /\ received = <<>>
    /\ log = <<>>
    /\ faulty = TRUE
    /\ RetryIdle
    /\ PureIdle
    /\ KeywordsIdle

UpdateUserInCsvRead(c) ==
    /\ csv_pc[c] = "idle"
    /\ csv_data' = [csv_data EXCEPT ![c] = users_csv.rows]
    /\ csv_pc' = [csv_pc EXCEPT ![c] = "read"]
    /\ UNCHANGED <<is_available, store, clock, loopVars, callerVars, received, log, faulty, retryVars,
                   zmqVars, pureVars, add_calls, server_pc, users_csv, built, app_log, db_available,
                   user_table, todo_rows, thread_started, update_pc, session, kwVars, profileVars>>

UpdateUserInCsvWrite(c) ==
    /\ csv_pc[c] = "read"
    /\ \E skills \in Texts :
          IF FirstUser(csv_data[c], UserOf(c)) = 0
          THEN /\ csv_pc' = [csv_pc EXCEPT ![c] = "raised"]
               /\ UNCHANGED <<users_csv, csv_data>>
          ELSE /\ csv_data' = [csv_data EXCEPT ![c] = SetSkills(csv_data[c], UserOf(c), skills)]
               /\ users_csv' = CsvFile(SetSkills(csv_data[c], UserOf(c), skills))
               /\ csv_pc' = [csv_pc EXCEPT ![c] = "returned"]
    /\ UNCHANGED <<is_available, store, clock, loopVars, callerVars, received, log, faulty, retryVars,
                   zmqVars, pureVars, add_calls, server_pc, built, app_log, db_available,
                   user_table, todo_rows, thread_started, update_pc, session, kwVars, profileVars>>

NextCsvUpdate ==
    \/ \E c \in Callers : UpdateUserInCsvRead(c)
    \/ \E c \in Callers : UpdateUserInCsvWrite(c)

CsvUpdateSpec == InitCsvUpdate /\ [][NextCsvUpdate]_vars

---------------------------------------------------------------------------
(* Any client of the reply socket: the payloads query_llm builds and the   *)
(* malformed ones (no method key, empty method name, no arguments key, an  *)
(* argument list of the wrong length, a JSON value that is not an object). *)

RawRequests ==
    {RequestWithoutMethod(<<E1>>),
     Request("", <<E1>>),
     RequestWithoutArguments("delete_expert_from_vector_store"),
     Request("delete_expert_from_vector_store", <<>>),
     Request("update_expert_in_vector_store", <<T1>>),
     JsonArray,
     Request("add_expert_to_vector_store", <<T1, E1>>),
     Request("delete_expert_from_vector_store", <<E1>>)}

CallerSendRaw(c) == CallerSendOf(c, RawRequests)

NextRaw ==
    \/ \E c \in Callers : CallerSendRaw(c)
    \/ \E c \in Callers : CallerReturn(c)
    \/ LoopRecv
    \/ LoopDispatch
    \/ LoopRun
    \/ LoopSend
    \/ LoopExcept

RawSpec == Init /\ [][NextRaw]_vars

---------------------------------------------------------------------------
(* __get_keywords on its own.  A keyword is the sequence of its words: 1   *)
(* to 4 are lower-case content words, 9 is a lower-case stop word, and a   *)
(* word with capitals is its lower-case number plus 30.  The outputs of    *)
(* the generative model and of the ranker are chosen by the environment;   *)
(* the ranker returns at most top_n of the candidates it was given.        *)

ParagraphSize == 5

TopN == 3

StopWords == {9}

Lower(w) == IF w > 30 THEN w - 30 ELSE w

LowerStr(k) == [i \in 1..Len(k) |-> Lower(k[i])]

UpperStr(k) == [i \in 1..Len(k) |-> Upper(k[i])]

KeywordTexts == {[i \in 1..n |-> i] : n \in 0..MaxKwSents}

\* what the comma-separated parser can hand back for one paragraph: one
\* empty string, one keyword, the same keyword in two spellings, two
\* keywords equal once stop words are removed, a keyword made of a stop
\* word only, four different keywords
LlmOutputs ==
    {<< <<>> >>,
     << <<1>> >>,
     << <<31>>, <<1>> >>,
     << <<9, 1>>, <<1>> >>,
     << <<9>>, <<2>> >>,
     << <<1>>, <<2>>, <<3>>, <<4>> >>}

RemoveStopWordsDroppingEmpty(documents) ==
    SelectSeq([i \in 1..Len(documents) |->
                  SelectSeq(documents[i], LAMBDA token : token \notin StopWords)],
              LAMBDA doc : doc # <<>>)

RemoveStopWords(documents) ==
    [i \in 1..Len(documents) |-> SelectSeq(documents[i], LAMBDA token : token \notin StopWords)]

Orderings(S) ==
    {f \in [1..Cardinality(S) -> S] : \A i, j \in 1..Cardinality(S) : i # j => f[i] # f[j]}

\* keywords_model.extract_keywords: the candidates found in the paragraph,
\* best first, cut at top_n
KeyBertOutputs(candidates) ==
    LET found == {candidates[i] : i \in 1..Len(candidates)} \ {<<>>}
    IN  UNION {Orderings(S) : S \in {T \in SUBSET found : Cardinality(T) <= TopN}}

IndexOf(list, x) == CHOOSE i \in 1..Len(list) : list[i] = x /\ \A j \in 1..(i - 1) : list[j] # x

TagOfUnchanged(llm_keyword) == llm_keyword

TagOf(llm_keyword) == UpperStr(llm_keyword)

NeverSkipsBackends(text) == FALSE

SkipsBackends(text) == text = <<>>

ParagraphCompleteOnlyAtFive(sentences, i, n) == Len(sentences) = ParagraphSize

ParagraphComplete(sentences, i, n) == Len(sentences) = ParagraphSize \/ i = n - 1

RECURSIVE Join(_)
Join(sentences) == IF sentences = <<>> THEN <<>> ELSE Head(sentences) \o Join(Tail(sentences))

Tokenized(text) == Sents(TranslateText(text, Fr))

InitKeywords ==
    /\ ServiceOff
    /\ RetryIdle
    /\ PureIdle
    /\ ktext \in KeywordTexts
    /\ kpc = "start"
    /\ ki = 0
    /\ ksentences = <<>>
    /\ kparagraphs = <<>>
    /\ klast = NoParagraph
    /\ kkeywords = {}
    /\ kcalls = NoBackendCalls
    /\ kresult = NotReturned

\* lines 864-870
GetKeywordsStart ==
    /\ kpc = "start"
    /\ IF SkipsBackends(ktext)
       THEN /\ kresult' = << <<>> >>
            /\ kpc' = "returned"
            /\ UNCHANGED kcalls
       ELSE /\ kcalls' = [kcalls EXCEPT !.translate = @ + 1]
            /\ \E f \in FailChoices :
                  IF f = 1
                  THEN kpc' = "raised" /\ kresult' = <<TranslateError>>
                  ELSE kpc' = "loop" /\ UNCHANGED kresult
    /\ UNCHANGED <<is_available, store, clock, loopVars, callerVars, received, log, faulty,
                   retryVars, zmqVars, pureVars, add_calls, serverVars, ktext, ki, ksentences, kparagraphs,
                   klast, kkeywords, profileVars>>

\* lines 872-891: one iteration of the loop over the segmented sentences
GetKeywordsSentence ==
    /\ kpc = "loop"
    /\ ki < Len(Tokenized(ktext))
    /\ LET sentences == Append(ksentences, Tokenized(ktext)[ki + 1])
       IN  IF ~ParagraphComplete(sentences, ki, Len(Tokenized(ktext)))
           THEN /\ ksentences' = sentences
                /\ ki' = ki + 1
                /\ UNCHANGED <<kpc, kparagraphs, klast, kkeywords, kcalls, kresult>>
           ELSE \E r \in {TryGetLlm("keywords", script) : script \in Scripts} :
                       /\ ksentences' = <<>>
                       /\ IF r.status # "ok"
                          THEN /\ kcalls' = [kcalls EXCEPT !.client = @ + 1, !.model = @ + r.calls,
                                                           !.retried = @ + r.sleeps]
                               /\ kpc' = "raised"
                               /\ kresult' = <<r.exc>>
                               /\ klast' = [NoParagraph EXCEPT !.sentences = Join(sentences)]
                               /\ UNCHANGED <<ki, kparagraphs, kkeywords>>
                          ELSE \E output \in LlmOutputs :
                                  LET llm_keywords == [i \in 1..Len(output) |-> LowerStr(output[i])]
                                      candidate_keywords == RemoveStopWords(llm_keywords)
                                  IN  \E keybert_keywords \in KeyBertOutputs(candidate_keywords) :
                                         LET tags == {TagOf(llm_keywords[IndexOf(candidate_keywords,
                                                                           keybert_keywords[j])]) :
                                                         j \in 1..Len(keybert_keywords)}
                                         IN  /\ kcalls' = [kcalls EXCEPT !.client = @ + 1,
                                                                         !.model = @ + r.calls,
                                                                         !.retried = @ + r.sleeps,
                                                                         !.ranker = @ + 1]
                                             /\ klast' = [sentences |-> Join(sentences),
                                                          llm_keywords |-> llm_keywords,
                                                          candidate_keywords |-> candidate_keywords,
                                                          keybert_keywords |-> keybert_keywords]
                                             /\ kparagraphs' = Append(kparagraphs,
                                                                      [sentences |-> sentences,
                                                                       tags |-> tags])
                                             /\ kkeywords' = kkeywords \cup tags
                                             /\ ki' = ki + 1
                                             /\ UNCHANGED <<kpc, kresult>>
    /\ UNCHANGED <<is_available, store, clock, loopVars, callerVars, received, log, faulty,
                   retryVars, zmqVars, pureVars, add_calls, serverVars, ktext, profileVars>>

\* line 893: list(keywords), in the order the set happens to iterate
GetKeywordsReturn ==
    /\ kpc = "loop"
    /\ ki = Len(Tokenized(ktext))
    /\ \E order \in Orderings(kkeywords) : kresult' = <<order>>
    /\ kpc' = "returned"
    /\ klast' = NoParagraph
    /\ UNCHANGED <<is_available, store, clock, loopVars, callerVars, received, log, faulty,
                   retryVars, zmqVars, pureVars, add_calls, serverVars, ktext, ki, ksentences, kparagraphs,
                   kkeywords, kcalls, profileVars>>

NextKeywords == GetKeywordsStart \/ GetKeywordsSentence \/ GetKeywordsReturn

KeywordsSpec == InitKeywords /\ [][NextKeywords]_vars

---------------------------------------------------------------------------
(* The ids of the index with the readings of time.time() left to the       *)
(* system clock: a reading is either a value not read before or, on a      *)
(* clock that has not advanced since the previous reading, the previous    *)
(* value again.  What collection.add does with an id the collection        *)
(* already holds depends on the chromadb release: it leaves the collection *)
(* unchanged or raises.                                                    *)

DuplicateIdError == "DuplicateIDError"

DuplicateIdOutcomes == {"ignored", "raised"}

TimeTime(clk, fresh) == IF fresh \/ clk = 1 THEN clk ELSE clk - 1

RECURSIVE AddSkillsAt(_, _, _, _, _, _, _)
AddSkillsAt(st, clk, skills, email, fresh, on_duplicate, calls) ==
    IF skills = <<>> THEN [store |-> st, clock |-> clk, raised |-> NoExc, calls |-> calls]
    ELSE LET id == TimeTime(clk, Head(fresh))
             clk2 == IF id = clk THEN clk + 1 ELSE clk
             calls2 == Append(calls, [document |-> Head(skills), expert_email |-> email, id |-> id])
         IN  IF id \in {st[i].id : i \in 1..Len(st)}
             THEN IF on_duplicate = "raised"
                  THEN [store |-> st, clock |-> clk2, raised |-> DuplicateIdError, calls |-> calls2]
                  ELSE AddSkillsAt(st, clk2, Tail(skills), email, Tail(fresh), on_duplicate, calls2)
             ELSE AddSkillsAt(CollectionAdd(st, Head(skills), email, id), clk2, Tail(skills),
                              email, Tail(fresh), on_duplicate, calls2)

\* __add_expert_to_vector_store called for one expert
AddExpertToVectorStore ==
    /\ nreq < MaxReq
    /\ \E expert_skills \in Texts, expert_email \in Emails, on_duplicate \in DuplicateIdOutcomes :
          LET tokenized == Sents(TranslateText(expert_skills, En))
              stored == CollectionGet(store, expert_email)
          IN  /\ data' = [id |-> nreq + 1, caller |-> "", json |-> "object",
                          keys |-> {"method", "arguments"},
                          method |-> "add_expert_to_vector_store",
                          arguments |-> <<expert_skills, expert_email>>]
              /\ IF NeedsInsert(stored, tokenized)
                 THEN \E fresh \in [1..Len(tokenized) -> BOOLEAN] :
                         LET r == AddSkillsAt(store, clock, tokenized, expert_email, fresh,
                                              on_duplicate, add_calls)
                         IN  /\ store' = r.store
                             /\ clock' = r.clock
                             /\ exc' = r.raised
                             /\ add_calls' = r.calls
                 ELSE /\ exc' = NoExc
                      /\ UNCHANGED <<store, clock, add_calls>>
    /\ nreq' = nreq + 1
    /\ UNCHANGED <<is_available, pc, steps, response, phase, req, inbox, received, log, faulty,
                   retryVars, zmqVars, pureVars, serverVars, kwVars, profileVars>>

NextTime == AddExpertToVectorStore

TimeSpec == Init /\ [][NextTime]_vars

---------------------------------------------------------------------------
(* Properties *)

IsUpdate(r) == r.method = "update_expert_in_vector_store" /\ Len(r.arguments) = 2

IsIndexRequest(r) ==
    \/ r.method \in {"add_expert_to_vector_store", "update_expert_in_vector_store"} /\ Len(r.arguments) = 2
    \/ r.method = "delete_expert_from_vector_store" /\ Len(r.arguments) = 1

OwnerOf(r) == r.arguments[Len(r.arguments)]

Segmentation(skills) == Sents(TranslateText(skills, En))

SubmittedSnippets(r) ==
    IF r.method = "delete_expert_from_vector_store" THEN <<>> ELSE Segmentation(r.arguments[1])

OwnerIds(st, email) == {st[i].id : i \in {j \in 1..Len(st) : st[j].expert_email = email}}

LogIds == [i \in 1..Len(log) |-> log[i].id]

\* C1: a request whose method name is not one of the five table operations
\* never gets a method body run and is always answered with an error.
C1_OnlyTableOperationsRun ==
    /\ pc = "run" => data.method \in TableMethods
    /\ \A i \in 1..Len(log) : log[i].method \notin TableMethods => log[i].status = "error"

\* C2: at most one request is being served at any instant, and it is the one
\* whose index steps the loop is running; every other issued request is
\* still waiting or already answered.
C2_OneIndexOperationAtATime ==
    /\ Cardinality({c \in Callers : phase[c] = "serving"}) <= 1
    /\ \A c \in Callers : phase[c] = "serving" => (data = req[c] /\ pc # "recv")
    /\ pc \in {"dispatch", "run", "send", "except"} => \E c \in Callers : phase[c] = "serving"

C2_Witness ==
    /\ pc = "run"
    /\ IsUpdate(data)
    /\ steps = <<"populate">>
    /\ \E c \in Callers : phase[c] = "waiting" /\ IsUpdate(req[c]) /\ OwnerOf(req[c]) # OwnerOf(data)

\* C3: whenever the loop is idle and every add, update and delete served so
\* far ended without error, every owner for which one has been served holds
\* exactly the segmentation of the skills text submitted last for it
\* (nothing after a delete): no snippet twice, no snippet of an older text.
C3_IndexMatchesLastSubmission ==
    (pc = "recv" /\ \A i \in 1..Len(log) : IsIndexRequest(log[i]) => log[i].status = "success") =>
        \A i \in 1..Len(log) :
            (/\ IsIndexRequest(log[i])
             /\ \A j \in (i + 1)..Len(log) :
                   ~(IsIndexRequest(log[j]) /\ OwnerOf(log[j]) = OwnerOf(log[i])))
            => CollectionGet(store, OwnerOf(log[i])) = SubmittedSnippets(log[i])

PendingUpdates ==
    /\ ~faulty
    /\ \A c \in Callers : phase[c] \in {"waiting", "serving"} /\ IsUpdate(req[c])
    /\ \A c, d \in Callers : c # d => OwnerOf(req[c]) # OwnerOf(req[d])

Updated(c) ==
    /\ phase[c] = "answered"
    /\ inbox[c][1].status = "success"
    /\ CollectionGet(store, OwnerOf(req[c])) = Segmentation(req[c].arguments[1])

Superseded(k) ==
    \/ \E l \in (k + 1)..Len(log) : IsIndexRequest(log[l]) /\ OwnerOf(log[l]) = OwnerOf(log[k])
    \/ pc # "recv" /\ IsIndexRequest(data) /\ OwnerOf(data) = OwnerOf(log[k])

UpdatedOwnersExact ==
    \A k \in 1..Len(log) :
        (IsUpdate(log[k]) /\ log[k].status = "success" /\ ~Superseded(k))
        => CollectionGet(store, OwnerOf(log[k])) = Segmentation(log[k].arguments[1])

C7_FourthAttemptSucceeds ==
    (/\ rresult.status # "none"
     /\ \A k \in 1..3 : rscript[k] = "parse"
     /\ rscript[4] = "ok")
    => rresult.status = "ok"

\* C8: a backend whose output always fails parsing is called exactly four
\* times and the query then raises the terminal error.
C8_FourCallsThenTerminalError ==
    (/\ rresult.status # "none"
     /\ \A k \in 1..MaxScript : rscript[k] = "parse")
    => (rresult.status = "terminal" /\ rresult.exc = TerminalError(rclient) /\ rresult.calls = 4)

IsDelete(r) == r.method = "delete_expert_from_vector_store" /\ Len(r.arguments) = 1

IsAdd(r) == r.method = "add_expert_to_vector_store" /\ Len(r.arguments) = 2

StoreIds(st) == {st[i].id : i \in 1..Len(st)}

\* C11: a delete request always runs to a successful end, after which the
\* index holds no snippet of the owner; when the owner had no snippet before
\* (a second delete included) the index is left exactly as it was.
C11_DeleteRemovesOwner ==
    [][(pc = "run" /\ IsDelete(data) /\ pc' # "run") =>
          /\ pc' = "send"
          /\ response'.status = "success"
          /\ CollectionGet(store', OwnerOf(data)) = <<>>
          /\ CollectionGet(store, OwnerOf(data)) = <<>> => store' = store]_vars

C11_Witness ==
    /\ Len(log) = 1
    /\ IsDelete(log[1]) /\ log[1].status = "success" /\ OwnerOf(log[1]) = E1
    /\ clock = 2
    /\ pc = "send"
    /\ IsDelete(data) /\ OwnerOf(data) = E1
    /\ response.status = "success"
    /\ store = <<>>

C13_AtMostFiveWithinDistance ==
    qexperts # NoExperts =>
        /\ Len(qexperts[1].expert_emails) <= 5
        /\ \A i \in 1..Len(qexperts[1].scores) : qexperts[1].scores[i] <= 50
        /\ Len(qexperts[1].expert_emails) = Len(qexperts[1].scores)

C13_Witness ==
    /\ qexperts # NoExperts
    /\ Len(qexperts[1].expert_emails) = 5
    /\ Len(qneighbors) = 6
    /\ \A j \in 1..5 : qneighbors[j].distance <= 50
    /\ qneighbors[6].distance <= 50
    /\ Cardinality(OwnersIn(qneighbors)) = 6

Near(j) == qneighbors[j].distance <= 50

FirstNear(j) ==
    /\ Near(j)
    /\ \A k \in 1..(j - 1) : ~(Near(k) /\ qneighbors[k].expert_email = qneighbors[j].expert_email)

FirstNearPositions == {j \in 1..Len(qneighbors) : FirstNear(j)}

KeptOf(positions) == {j \in positions : Cardinality({k \in positions : k < j}) < 5}

RankIn(positions, j) == Cardinality({k \in positions : k <= j})

\* C14: the entry built for a Role Query lists, in the order of the neighbor
\* list, the owners of the first five neighbors that are within 0.5 and
\* whose owner has no earlier neighbor within 0.5, each with the distance of
\* that neighbor: no owner twice, nothing kept after the fifth.
C14_FirstNearOccurrenceKept ==
    qexperts # NoExperts =>
        LET kept == KeptOf(FirstNearPositions)
        IN  /\ Len(qexperts[1].expert_emails) = Cardinality(kept)
            /\ Len(qexperts[1].scores) = Cardinality(kept)
            /\ \A j \in kept :
                  /\ qexperts[1].expert_emails[RankIn(kept, j)] = qneighbors[j].expert_email
                  /\ qexperts[1].scores[RankIn(kept, j)] = qneighbors[j].distance

C14_Witness ==
    /\ qexperts # NoExperts
    /\ Len(qneighbors) = 4
    /\ qneighbors[1].expert_email = qneighbors[2].expert_email
    /\ qneighbors[2].expert_email = qneighbors[4].expert_email
    /\ qneighbors[1].distance = 51
    /\ qneighbors[2].distance = 49
    /\ qneighbors[4].distance = 47
    /\ qneighbors[3].distance = 48
    /\ qexperts[1].scores = <<49, 48>>

\* C15: once stop_llm_processing has run, is_available is false, the reply
\* socket is closed and the context terminated; and when it ran while the
\* loop was processing a request, no exception leaves start_llm_processing.
C15_StopEndsLoopCleanly ==
    socket_closed =>
        /\ ~is_available
        /\ context_terminated
        /\ data # NoData => pc # "escaped"

C17_ShortTextOneCall ==
    (tcalls # NoCalls /\ TextLen(ttext) <= 5000) =>
        /\ Len(tcalls[1]) = 1
        /\ tcalls[1][1].lines = [i \in 1..Len(ttext) |-> i]
        /\ tcalls[1][1].chars = TextLen(ttext)

C17_Witness ==
    /\ tcalls # NoCalls
    /\ Len(ttext) = 3
    /\ ttext[2] = 0
    /\ ttext[3] = 2500
    /\ TextLen(ttext) <= 5000
    /\ Len(tcalls[1]) = 1

\* C18: for a text of more than 5000 characters, no upstream call receives
\* more than 3000 characters (checked for texts whose lines are each shorter
\* than 3000 characters, so that a call within the limit exists for each).
C18_ChunksWithinSubLimit ==
    (/\ tcalls # NoCalls
     /\ TextLen(ttext) > 5000
     /\ \A i \in 1..Len(ttext) : ttext[i] < 3000)
    => \A k \in 1..Len(tcalls[1]) : tcalls[1][k].chars <= 3000

\* C19: whatever the text, no upstream call receives more than 5000
\* characters.
C19_CallsWithinCap ==
    tcalls # NoCalls => \A k \in 1..Len(tcalls[1]) : tcalls[1][k].chars <= 5000

RECURSIVE LinesSent(_)
LinesSent(calls) == IF calls = <<>> THEN <<>> ELSE Head(calls).lines \o LinesSent(Tail(calls))

NonEmptyLines(lens) == SelectSeq([i \in 1..Len(lens) |-> i], LAMBDA i : lens[i] # 0)

\* C20: for a text of more than 5000 characters, the lines carried by the
\* upstream calls, taken in the order of the calls, are exactly the
\* non-empty lines of the text in their original order, each once.
C20_EveryLineSentOnceInOrder ==
    (tcalls # NoCalls /\ TextLen(ttext) > 5000) =>
        LinesSent(tcalls[1]) = NonEmptyLines(ttext)

LlmInitRaised == \E i \in 1..Len(app_log) : app_log[i][1] = "LLM.init"

C30_InitServerCompletes == <>(server_pc = "done")

Malformed(r) ==
    \/ r.json # "object"
    \/ DictGet(r, "method", "") = ""
    \/ /\ r.method \in TableMethods
       /\ Len(DictGet(r, "arguments", <<>>)) # Arity(r.method)

WellFormed(resp) ==
    \/ resp.status = "success" /\ DOMAIN resp = {"status", "result"}
    \/ resp.status = "error" /\ DOMAIN resp = {"status", "error_message"}

\* C23: every response the loop has built or a caller has received is
\* either a success with a result and no error_message or an error with an
\* error_message and no result; on a success query_llm returns that result,
\* on an error it raises an exception carrying that error_message.
C23_ResponseEitherResultOrError ==
    /\ pc = "send" => WellFormed(response)
    /\ \A c \in Callers :
          inbox[c] # <<>> =>
              LET resp == inbox[c][1]
                  o == QueryLlmOutcome(resp)
              IN  /\ WellFormed(resp)
                  /\ resp.status = "success" => (o.outcome = "return" /\ o.value = resp.result)
                  /\ resp.status = "error" => (o.outcome = "raise" /\ o.message = resp.error_message)

C23_Witness ==
    /\ \A c \in Callers : phase[c] = "answered"
    /\ \E c \in Callers :
          /\ req[c].method = "get_keywords"
          /\ inbox[c][1].status = "success"
          /\ inbox[c][1].result.kind = "list"
    /\ \E c \in Callers :
          /\ req[c].method = "translate_text"
          /\ inbox[c][1].status = "error"
          /\ inbox[c][1].error_message = TranslateError

\* C24: __get_keywords on an empty text returns an empty list without any
\* call to the translation backend, the generative model or the ranker.
C24_EmptyTextEmptyResult ==
    (ktext = <<>> /\ kpc # "start") =>
        /\ kpc = "returned"
        /\ kresult = << <<>> >>
        /\ kcalls = NoBackendCalls

C24_Witness ==
    /\ ktext = <<>>
    /\ kpc = "returned"
    /\ kresult = << <<>> >>

IsUpperStr(k) == \A i \in 1..Len(k) : k[i] > 30

\* C25: every tag of the returned list is upper-case and no two entries of
\* the list are equal once case is ignored, also when two paragraphs have
\* produced the same tag.
C25_TagsUpperCaseNoDuplicates ==
    kpc = "returned" =>
        /\ \A i \in 1..Len(kresult[1]) : IsUpperStr(kresult[1][i])
        /\ \A i, j \in 1..Len(kresult[1]) :
              i # j => LowerStr(kresult[1][i]) # LowerStr(kresult[1][j])
        /\ {kresult[1][i] : i \in 1..Len(kresult[1])} = kkeywords

C25_Witness ==
    /\ kpc = "returned"
    /\ Len(kparagraphs) = 2
    /\ kparagraphs[1].tags = {<<31>>}
    /\ kparagraphs[2].tags = {<<31>>, <<32>>, <<33>>}
    /\ Len(kresult[1]) = 3

Ceil5(n) == (n + 4) \div 5

Min(a, b) == IF a < b THEN a ELSE b

\* the n segmented sentences cut into consecutive groups of 5, the last
\* one holding what remains
ExpectedParagraphs(tokenized) ==
    [p \in 1..Ceil5(Len(tokenized)) |->
        SubSeq(tokenized, 5 * (p - 1) + 1, Min(5 * p, Len(tokenized)))]

ParagraphSentences == [p \in 1..Len(kparagraphs) |-> kparagraphs[p].sentences]

\* C26, as stated: when __get_keywords returns for a text of n sentences,
\* the paragraphs are the consecutive groups of 5 sentences (the last one
\* possibly shorter) and the generative model has been called exactly
\* ceil(n/5) times.
C26_ModelQueriedOncePerParagraph ==
    (kpc = "returned" /\ ktext # <<>>) =>
        /\ ParagraphSentences = ExpectedParagraphs(Tokenized(ktext))
        /\ kcalls.model = Ceil5(Len(ktext))

\* C26, amended: the paragraphs built so far are always the first of the
\* consecutive groups of 5 sentences; when __get_keywords returns they are
\* all of them, the retrying keyword query has been issued exactly
\* ceil(n/5) times, once per paragraph, and the generative model has been
\* called once per query plus once per parse failure that was retried.
C26_ParagraphsOfFive ==
    /\ Len(kparagraphs) <= Ceil5(Len(ktext))
    /\ ParagraphSentences = SubSeq(ExpectedParagraphs(Tokenized(ktext)), 1, Len(kparagraphs))
    /\ (kpc = "returned" /\ ktext # <<>>) =>
          /\ ParagraphSentences = ExpectedParagraphs(Tokenized(ktext))
          /\ kcalls.client = Ceil5(Len(ktext))
          /\ kcalls.ranker = Ceil5(Len(ktext))
          /\ kcalls.model = kcalls.client + kcalls.retried

C26_Witness ==
    /\ kpc = "returned"
    /\ Len(ktext) = 6
    /\ Len(kparagraphs) = 2
    /\ Len(kparagraphs[1].sentences) = 5
    /\ kparagraphs[2].sentences = << <<26>> >>
    /\ kcalls.client = 2
    /\ kcalls.retried = 1
    /\ kcalls.model = 3

\* C29: a paragraph adds at most 3 tags; the stop-word-filtered list has
\* the length of the candidate list; every ranked phrase occurs in the
\* filtered list, and the tags added are exactly the upper-cased candidates
\* standing at the first position of each ranked phrase in that list.
C29_TagsMapBackToCandidates ==
    (kpc = "loop" /\ Len(kparagraphs) >= 1 /\ ksentences = <<>>) =>
        LET tags == kparagraphs[Len(kparagraphs)].tags
            first(kw) == CHOOSE p \in 1..Len(klast.candidate_keywords) :
                            /\ klast.candidate_keywords[p] = kw
                            /\ \A q \in 1..(p - 1) : klast.candidate_keywords[q] # kw
        IN  /\ Cardinality(tags) <= 3
            /\ Len(klast.keybert_keywords) <= 3
            /\ Len(klast.candidate_keywords) = Len(klast.llm_keywords)
            /\ \A j \in 1..Len(klast.keybert_keywords) :
                  \E p \in 1..Len(klast.candidate_keywords) :
                      klast.candidate_keywords[p] = klast.keybert_keywords[j]
            /\ tags = {UpperStr(klast.llm_keywords[first(klast.keybert_keywords[j])]) :
                          j \in 1..Len(klast.keybert_keywords)}
            /\ tags \subseteq kkeywords

C29_Witness ==
    /\ kpc = "loop"
    /\ Len(kparagraphs) = 2
    /\ ksentences = <<>>
    /\ klast.llm_keywords = << <<9, 1>>, <<1>> >>
    /\ klast.candidate_keywords = << <<1>>, <<1>> >>
    /\ klast.keybert_keywords = << <<1>> >>
    /\ kparagraphs[2].tags = {<<39, 31>>}
    /\ Cardinality(kparagraphs[1].tags) = 3

\* C27: every collection.add call passes an id that no other call has
\* passed, in the same add or in an earlier one; and an add for an owner
\* without snippets, when it ends without exception, leaves the owner with
\* every snippet of the submitted text.
C27_AddedIdsDistinct ==
    [][nreq' = nreq + 1 =>
          /\ \A i, j \in 1..Len(add_calls') : i # j => add_calls'[i].id # add_calls'[j].id
          /\ (CollectionGet(store, OwnerOf(data')) = <<>> /\ exc' = NoExc) =>
                CollectionGet(store', OwnerOf(data')) = Segmentation(data'.arguments[1])]_vars

\* C28: every entry of the index carries the owner it was added for, one
\* of the e-mail addresses submitted.
C28_EverySnippetHasOwner ==
    \A i \in 1..Len(store) :
        /\ "expert_email" \in DOMAIN store[i]
        /\ store[i].expert_email \in Emails

C28_Witness ==
    /\ Len(store) = 3
    /\ store[1].expert_email = E1
    /\ store[2].expert_email = E2
    /\ store[3].expert_email = E2
    /\ Len(log) = 2

\* the snippets the start-up population stored for an owner
StoredAtStartup(email) ==
    CollectionGet(GetExpertRecommendationVectorStore(<<>>, users_csv.rows).store, email)

\* no index request for this owner has been answered yet: what the owner
\* holds when the loop receives the next request is what start-up stored
Untouched(email) ==
    \A i \in 1..Len(log) : IsIndexRequest(log[i]) => OwnerOf(log[i]) # email

\* C31: when update has failed with an exception of the translation (the
\* loop is about to answer it with an error), the owner holds the same
\* snippets as before the call; stated for a first request on the owner,
\* where the snippets before the call are those of the start-up population.
C31_FailedUpdateKeepsSnippets ==
    (pc = "except" /\ IsUpdate(data) /\ exc = TranslateError /\ Untouched(OwnerOf(data))) =>
        CollectionGet(store, OwnerOf(data)) = StoredAtStartup(OwnerOf(data))

\* C32: once init_server has returned with llm.is_available true, the
\* dispatch-loop thread has been started, so that a route passing the
\* llm.is_available guard has a loop to serve its request.
C32_AvailableImpliesLoopStarted ==
    (server_pc = "done" /\ is_available) => thread_started

\* C33: whenever LLM.init has finished with is_available true, every owner
\* listed in the users CSV holds the segmentation of its skills text in the
\* index, also after an earlier start failed partway through the initial
\* population and the process was restarted on the same collection.
C33_AvailableImpliesCsvIndexed ==
    (server_pc = "llm_checked" /\ is_available) =>
        \A i \in 1..Len(users_csv.rows) :
            CollectionGet(store, users_csv.rows[i].email) = Segmentation(users_csv.rows[i].skills)

EntriesOf(profile) ==
    {recommended[1][k] : k \in {j \in 1..Len(recommended[1]) :
                                   recommended[1][j].profile = GoogleTranslate(profile, Fr)}}

Selected(neighbors) == ScanNeighbors(neighbors, <<>>, <<>>).expert_emails

Elements(list) == {list[i] : i \in 1..Len(list)}

\* C34: the mapping returned by recommend has exactly one entry per Role
\* Query, and the entry of the i-th Role Query holds only owners selected
\* from the i-th neighbor list, also when two Role Queries are equal or have
\* the same translation.
C34_OneEntryPerRoleQuery ==
    recommended # <<>> =>
        /\ Len(recommended[1]) = Len(generic_profiles)
        /\ \A i \in 1..Len(generic_profiles) :
              /\ EntriesOf(generic_profiles[i]) # {}
              /\ \A e \in EntriesOf(generic_profiles[i]) :
                    Elements(e.experts.expert_emails) \subseteq Elements(Selected(found_experts[i]))

\* C35: stop_llm_processing, registered as exit handler before LLM.init
\* runs, never ends with an exception: not when the initialisation never ran
\* or failed before the socket and context existed, not when the service is
\* ready, not when it is called again.
C35_StopNeverRaises == stop_exc = NoExc

OthersOf(st, email) == SelectSeq(st, LAMBDA r : r.expert_email # email)

IsReadOnly(r) == r.method \in {"get_keywords", "get_experts_recommendation"}

\* C36: every step of a delete or an update leaves the entries of every
\* other owner as they were (same texts, owners and ids, in the same
\* order), and every step of recommend and of extract_keywords leaves the
\* whole index as it was.
C36_OtherOwnersUntouched ==
    [][pc = "run" =>
          /\ (IsDelete(data) \/ IsUpdate(data)) =>
                 OthersOf(store', OwnerOf(data)) = OthersOf(store, OwnerOf(data))
          /\ IsReadOnly(data) => store' = store]_vars

C36_Witness ==
    /\ Len(log) = 2
    /\ IsUpdate(log[1]) /\ OwnerOf(log[1]) = E2 /\ log[1].status = "success"
    /\ IsDelete(log[2]) /\ OwnerOf(log[2]) = E1 /\ log[2].status = "success"
    /\ users_csv.rows # <<>>
    /\ CollectionGet(store, E1) = <<>>
    /\ CollectionGet(store, E2) = Segmentation(T1)

\* C37: whenever Database.update is not running (it has not been called, or
\* it has returned, committed or failed and rolled back), what the index
\* holds for an owner is the segmentation of the skills the committed user
\* table records for that owner: no add or update applied to the index
\* stands for a user-table change that was rolled back.
C37_IndexAgreesWithUserTable ==
    update_pc = "idle" =>
        \A e \in Emails :
            CollectionGet(store, e) # <<>> =>
                /\ FirstUser(user_table, e) # 0
                /\ CollectionGet(store, e) = Segmentation(user_table[FirstUser(user_table, e)].skills)

\* C38: Database.is_available is false only while Database.update is
\* running: once update has returned, committed or rolled back, it is true.
C38_AvailableAfterUpdate == update_pc = "idle" => db_available

\* C39: when two update_user_in_csv calls for different users have both
\* returned, the CSV file holds the change of each: every handler finds in
\* the file the row it wrote for its user.
C39_BothCsvUpdatesTakeEffect ==
    (\A c \in Callers : csv_pc[c] = "returned") =>
        \A c \in Callers :
            users_csv.rows[FirstUser(users_csv.rows, UserOf(c))]
                = csv_data[c][FirstUser(csv_data[c], UserOf(c))]

====
